---- MODULE Spec2Model ----
(***************************************************************************)
(* Model of the CHASER back end: the annual-review workflow state machine  *)
(* (agents/workflow_intelligence.py), the four rule-based chasing agents   *)
(* and the sequential orchestrator cycle (agents/orchestrator.py).         *)
(* Times are whole days; an optional timestamp is <<>> (NULL) or <<d>>.    *)
(* Scores are integers in thousandths (1000 = 1.0).                        *)
(***************************************************************************)
EXTENDS Integers, Sequences, FiniteSets, TLC

VARIABLES
    \* ---- workflow intelligence (one annual-review case) ----
    case_stage,        \* Case.workflow_stage ("none" before initialisation)
    case_substage,     \* Case.workflow_substage
    wf_items,          \* WorkflowItem rows of the case, index = id
    meetings,          \* Meeting rows of the case's client: {<<type, date>>}
    client_found,      \* does query(Client).filter_by(id=case.client_id) find a row
    wf_last,           \* the operation that produced the current state
    wf_ret,            \* what that operation returned
    \* ---- the store the agents and the orchestrator work on ----
    now,               \* datetime.utcnow(), in whole days
    loas,              \* LOA rows, index = id
    doc_requests,      \* DocumentRequest rows, index = id
    post_advice_items, \* PostAdviceItem rows, index = id
    communications,    \* Communication rows in creation order
    llm_configured,    \* was the orchestrator built with an LLM service
    \* ---- run_autonomous_cycle, per running call ----
    pc,                \* "idle" | "execute" | "returned" | "raised"
    all_chases,        \* the chase queue built in phase 1 (sorted)
    next_chase,        \* index in all_chases of the next chase to execute
    actions_taken,     \* the actions_taken list of the summary
    cycle_start,       \* the rows as they were when the call started
    cycles_run,        \* number of calls started so far
    row_read,          \* the row _update_chase_metadata has queried and not yet committed
    \* ---- a single call of one of the agents' pure methods ----
    probe_fn,          \* the method called ("none" before the call)
    probe_item,        \* the item dictionary it is called with
    probe_out,         \* what it returned
    probe_llm,         \* what the LLM service answered during the call
    \* ---- LangGraphOrchestrator (agents/langgraph_orchestrator.py) ----
    graph,             \* the OrchestratorState of the cycle and the node to run next
    \* ---- InsightsAgent.process_query (agents/insights_agent.py) ----
    insights           \* the call stack of one natural-language query and its outcome

wfvars == <<case_stage, case_substage, wf_items, meetings, client_found, wf_last, wf_ret>>

storevars == <<now, loas, doc_requests, post_advice_items, communications, llm_configured>>

cyclevars == <<pc, all_chases, next_chase, actions_taken, cycle_start, cycles_run, row_read>>

probevars == <<probe_fn, probe_item, probe_out, probe_llm>>

graphvars == <<graph>>

insightsvars == <<insights>>

vars == <<wfvars, storevars, cyclevars, probevars, graphvars, insightsvars>>

\* ---------------------------------------------------------------- bounds
MaxProviders == 1      \* rows in the Provider table (the code reads at most ProviderLimit)
MaxMeetingDate == 2    \* meeting dates are 1..MaxMeetingDate
MaxDay == 3            \* the clock runs over days 0..MaxDay
MaxCycles == 2         \* run_autonomous_cycle calls per behaviour

\* ------------------------------------------------------- program constants
ProviderLimit == 3

None == "none"
Stages == <<"pre_meeting", "meeting", "suitability", "advice_implementation">>
WFStatuses == {"pending", "received", "overdue"}
MeetingTypes == {"annual_review", "ad_hoc"}

\* The item dictionary an agent's identify_chases_needed builds; the values
\* here are the defaults item.get(key, default) yields for a missing key.
BaseItem ==
    [agent |-> "none", id |-> 0, client_id |-> 0, status |-> "pending",
     priority |-> "medium", chase_count |-> 0, days_since_last_chase |-> 0,
     days_since_request |-> 0, days_overdue |-> 0, provider_reliability |-> 700,
     client_value_score |-> 1000, client_preferred_contact |-> "email",
     kind |-> "none", workflow_stage |-> "none", workflow_substage |-> "none"]

ReturnValues == {None, "meeting", "suitability", "advice_implementation"}

\* What an operation hands back: value is check_and_advance_workflow's result,
\* the other fields are get_workflow_status's dictionary.
NoRet == [value |-> None, current_stage |-> None, current_substage |-> None,
          can_advance |-> FALSE]

\* the running run_autonomous_cycle calls
Procs == {1}

NoStart == [loas |-> << >>, doc_requests |-> << >>, post_advice_items |-> << >>,
            wf_items |-> << >>, n_comms |-> 0, day |-> 0]

\* the initial OrchestratorState; node is the graph node that runs next
NoGraph ==
    [node |-> "identify_items", items_to_analyze |-> << >>, analyzed_items |-> << >>,
     prioritized_items |-> << >>, communications_generated |-> << >>,
     executed |-> 0, actions_taken |-> << >>, cycle_summary |-> << >>]

\* no natural-language query is being processed
NoInsights == [available |-> FALSE, stack |-> << >>, ret |-> "none", result |-> "none"]

Min(a, b) == IF a < b THEN a ELSE b
Max(a, b) == IF a > b THEN a ELSE b

\* A WorkflowItem as the engine creates it (status 'pending').
\* due_in: days until due_date; the column defaults fill the rest.
NewItem(stage, substage, item_type, priority, due_in) ==
    [workflow_stage |-> stage, workflow_substage |-> substage,
     item_type |-> item_type, status |-> "pending", priority |-> priority,
     requested_at |-> <<now>>, due_date |-> <<now + due_in>>,
     chase_count |-> 0, last_chased_at |-> << >>, stuck_score |-> 0]

\* query(WorkflowItem).filter_by(case_id=case.id, workflow_stage=stage).all()
ItemsOfStage(stage) ==
    {i \in 1..Len(wf_items) : wf_items[i].workflow_stage = stage}

AllReceived_Any(stage) ==
    \E i \in ItemsOfStage(stage) : wf_items[i].status = "received"

\* all(item.status == 'received' for item in <items of the stage>)
AllReceived(stage) ==
    \A i \in ItemsOfStage(stage) : wf_items[i].status = "received"

\* query(Meeting).filter_by(client_id=...).order_by(meeting_date.desc()).first():
\* the rows that may come first (ties on the date are not ordered); {} when no row.
RecentMeetings ==
    {m \in meetings : \A o \in meetings : o[2] <= m[2]}

\* query(Provider).limit(3).all(), as the number of rows
ProvidersRead == Min(MaxProviders, ProviderLimit)

initialize_annual_review_workflow ==
    /\ case_stage = None
    /\ wf_items' = wf_items \o
          << NewItem("pre_meeting", "pack_prep", "pre_meeting_doc", "medium", 7),
             NewItem("pre_meeting", "pack_prep", "questionnaire", "medium", 7),
             NewItem("pre_meeting", "pack_signoff", "pack_signoff", "medium", 7) >>
    /\ case_stage' = "pre_meeting"
    /\ case_substage' = "pack_prep"
    /\ wf_last' = "initialize"
    /\ wf_ret' = NoRet
    /\ UNCHANGED <<meetings, client_found, storevars, cyclevars, probevars, graphvars, insightsvars>>

advance_to_meeting_stage_Skip ==
    /\ wf_items' = wf_items \o
          << NewItem("meeting", "fact_find_update", "fact_find_update", "high", 3),
             NewItem("meeting", "meeting_notes", "meeting_notes", "high", 3) >>
    /\ case_stage' = "suitability"
    /\ case_substage' = "fact_find_update"

\* advance_to_meeting_stage: two meeting items, stage and substage set
advance_to_meeting_stage ==
    /\ wf_items' = wf_items \o
          << NewItem("meeting", "fact_find_update", "fact_find_update", "high", 3),
             NewItem("meeting", "meeting_notes", "meeting_notes", "high", 3) >>
    /\ case_stage' = "meeting"
    /\ case_substage' = "fact_find_update"

\* advance_to_suitability_stage: returns early, changing nothing, when the
\* client row is not found
advance_to_suitability_stage ==
    IF ~client_found
    THEN UNCHANGED <<wf_items, case_stage, case_substage>>
    ELSE /\ wf_items' = wf_items \o
               [k \in 1..ProvidersRead |->
                   NewItem("suitability", "loa_collection", "loa_required", "urgent", 5)] \o
               << NewItem("suitability", "suitability_letter", "suitability_letter", "high", 10) >>
         /\ case_stage' = "suitability"
         /\ case_substage' = "loa_collection"

\* The body of check_and_advance_workflow; rv is the value it returns.
CheckPreMeeting(rv) ==
    /\ case_stage = "pre_meeting"
    /\ IF AllReceived("pre_meeting")
       THEN \/ /\ \E m \in RecentMeetings : m[1] = "annual_review"
               /\ advance_to_meeting_stage
               /\ rv = "meeting"
            \/ /\ \/ meetings = {}
                  \/ \E m \in RecentMeetings : m[1] # "annual_review"
               /\ UNCHANGED <<wf_items, case_stage, case_substage>>
               /\ rv = None
       ELSE /\ UNCHANGED <<wf_items, case_stage, case_substage>>
            /\ rv = None

CheckMeeting(rv) ==
    /\ case_stage = "meeting"
    /\ IF AllReceived("meeting")
       THEN /\ advance_to_suitability_stage
            /\ rv = "suitability"
       ELSE /\ UNCHANGED <<wf_items, case_stage, case_substage>>
            /\ rv = None

CheckSuitability(rv) ==
    /\ case_stage = "suitability"
    /\ IF AllReceived("suitability")
       THEN /\ case_stage' = "advice_implementation"
            /\ case_substage' = "implementation"
            /\ UNCHANGED wf_items
            /\ rv = "advice_implementation"
       ELSE /\ UNCHANGED <<wf_items, case_stage, case_substage>>
            /\ rv = None

CheckOther(rv) ==
    /\ case_stage \notin {"pre_meeting", "meeting", "suitability"}
    /\ UNCHANGED <<wf_items, case_stage, case_substage>>
    /\ rv = None

CheckBody(rv) ==
    \/ CheckPreMeeting(rv)
    \/ CheckMeeting(rv)
    \/ CheckSuitability(rv)
    \/ CheckOther(rv)

check_and_advance_workflow ==
    /\ \E rv \in ReturnValues :
          /\ CheckBody(rv)
          /\ wf_ret' = [NoRet EXCEPT !.value = rv]
    /\ wf_last' = "check"
    /\ UNCHANGED <<meetings, client_found, storevars, cyclevars, probevars, graphvars, insightsvars>>

\* get_workflow_status: the result's current_stage/current_substage are read
\* before can_advance is computed by calling check_and_advance_workflow.
get_workflow_status ==
    /\ \E rv \in ReturnValues :
          /\ CheckBody(rv)
          /\ wf_ret' = [value |-> None,
                        current_stage |-> case_stage,
                        current_substage |-> case_substage,
                        can_advance |-> (rv # None)]
    /\ wf_last' = "status"
    /\ UNCHANGED <<meetings, client_found, storevars, cyclevars, probevars, graphvars, insightsvars>>

\* ---- the environment of the workflow engine
SetItemStatus ==
    /\ \E i \in 1..Len(wf_items), s \in WFStatuses :
          /\ wf_items[i].status # s
          /\ wf_items' = [wf_items EXCEPT ![i].status = s]
    /\ wf_last' = "set_status"
    /\ wf_ret' = NoRet
    /\ UNCHANGED <<case_stage, case_substage, meetings, client_found, storevars, cyclevars, probevars, graphvars, insightsvars>>

AddMeeting ==
    /\ \E t \in MeetingTypes, d \in 1..MaxMeetingDate :
          /\ <<t, d>> \notin meetings
          /\ meetings' = meetings \cup {<<t, d>>}
    /\ wf_last' = "add_meeting"
    /\ wf_ret' = NoRet
    /\ UNCHANGED <<case_stage, case_substage, wf_items, client_found, storevars, cyclevars, probevars, graphvars, insightsvars>>

WFInit ==
    /\ case_stage = None
    /\ case_substage = None
    /\ wf_items = << >>
    /\ meetings = {}
    /\ client_found \in BOOLEAN
    /\ wf_last = "init"
    /\ wf_ret = NoRet
    /\ now = 0
    /\ loas = << >>
    /\ doc_requests = << >>
    /\ post_advice_items = << >>
    /\ communications = << >>
    /\ llm_configured = FALSE
    /\ pc = [p \in Procs |-> "idle"]
    /\ all_chases = [p \in Procs |-> << >>]
    /\ next_chase = [p \in Procs |-> 1]
    /\ actions_taken = [p \in Procs |-> << >>]
    /\ cycle_start = [p \in Procs |-> NoStart]
    /\ row_read = [p \in Procs |-> << >>]
    /\ cycles_run = 0
    /\ probe_fn = "none"
    /\ probe_item = BaseItem
    /\ probe_out = "none"
    /\ probe_llm = "none"
    /\ graph = NoGraph
    /\ insights = NoInsights

WFNext ==
    \/ initialize_annual_review_workflow
    \/ check_and_advance_workflow
    \/ get_workflow_status
    \/ SetItemStatus
    \/ AddMeeting

SpecWF == WFInit /\ [][WFNext]_vars

\* ======================================================================
\* The chasing agents (agents/base_agent.py and the four domain agents)
\* ======================================================================

\* now - t in whole days, 0 when t is NULL
DaysSince(t) == IF t = << >> THEN 0 ELSE now - t[1]

calculate_stuck_score_NoFloor(item) ==
    LET s1 == Min(item.chase_count * 150, 500)
        s2 == IF item.days_since_last_chase > 7
              THEN s1 + Min((item.days_since_last_chase - 7) * 50, 300) ELSE s1
        s3 == IF item.days_overdue > 0
              THEN s2 + Min(item.days_overdue * 100, 400) ELSE s2
    IN Min(s3, 1000)

\* BaseAgent.calculate_stuck_score
calculate_stuck_score(item) ==
    LET s1 == Min(item.chase_count * 150, 500)
        s2 == IF item.days_since_last_chase > 7
              THEN s1 + Min((item.days_since_last_chase - 7) * 50, 300) ELSE s1
        s3 == IF item.days_overdue > 0
              THEN s2 + Min(item.days_overdue * 100, 400) ELSE s2
        s4 == IF item.status = "stuck" THEN Max(s3, 800)
              ELSE IF item.status = "overdue" THEN Max(s3, 600) ELSE s3
    IN Min(s4, 1000)

PriorityBase(p) ==
    CASE p = "urgent" -> 1000
      [] p = "high" -> 750
      [] p = "medium" -> 500
      [] p = "low" -> 250
      [] OTHER -> 500

\* BaseAgent.calculate_urgency_score
calculate_urgency_score(item) ==
    LET b1 == PriorityBase(item.priority)
        b2 == IF item.days_overdue > 0 THEN b1 + Min(item.days_overdue * 50, 200) ELSE b1
        b3 == b2 + (item.client_value_score - 1000) \div 10
        b4 == IF item.chase_count > 2 THEN b3 + 150 ELSE b3
    IN Min(b4, 1000)

\* ---------------------------------------------------------------- LOAAgent
LOAQueryStatuses == {"pending", "sent", "acknowledged", "overdue"}

LOADaysOverdue(l) ==
    IF l.expected_response_date # << >> /\ now > l.expected_response_date[1]
    THEN now - l.expected_response_date[1] ELSE 0

LOANeedsChase(l) ==
    IF l.status = "pending" /\ l.sent_to_client_at = << >> THEN TRUE
    ELSE IF l.status = "sent" /\ l.sent_to_client_at # << >>
         THEN now - l.sent_to_client_at[1] > 14
    ELSE IF l.status = "acknowledged" /\ l.sent_to_provider_at # << >>
         THEN LOADaysOverdue(l) > 0 \/ DaysSince(l.last_chased_at) > 10
    ELSE FALSE

LOAItem(i) ==
    [BaseItem EXCEPT !.agent = "loa", !.id = i, !.client_id = loas[i].client_id,
        !.status = loas[i].status, !.priority = loas[i].priority,
        !.chase_count = loas[i].chase_count,
        !.days_since_last_chase = DaysSince(loas[i].last_chased_at),
        !.days_overdue = LOADaysOverdue(loas[i]),
        !.provider_reliability = loas[i].provider_reliability,
        !.client_value_score = loas[i].client_value_score]

\* ids of the rows LOAAgent.identify_chases_needed returns
LOAIdentified ==
    {i \in 1..Len(loas) :
        /\ loas[i].status \in LOAQueryStatuses
        /\ (LOANeedsChase(loas[i]) \/ LOADaysOverdue(loas[i]) > 0)}

LOA_calculate_priority(item) ==
    LET u0 == calculate_urgency_score(item)
        u == IF item.provider_reliability < 500 THEN u0 + 200 ELSE u0
    IN IF item.days_overdue > 10 THEN "urgent"
       ELSE IF item.days_overdue > 5 THEN "high"
       ELSE IF u > 700 THEN "high"
       ELSE IF u > 400 THEN "medium"
       ELSE "low"

LOA_should_chase_Strict(item) ==
    IF item.days_overdue > 0 THEN TRUE
    ELSE IF item.days_since_last_chase < 3 THEN FALSE
    ELSE IF item.status = "pending" THEN TRUE
    ELSE IF item.status = "sent" THEN item.days_since_last_chase > 14
    ELSE IF item.status = "acknowledged"
         THEN item.days_overdue > 0 \/ item.days_since_last_chase >= 10
    ELSE FALSE

LOA_should_chase(item) ==
    IF item.days_overdue > 0 THEN TRUE
    ELSE IF item.days_since_last_chase < 3 THEN FALSE
    ELSE IF item.status = "pending" THEN TRUE
    ELSE IF item.status = "sent" THEN item.days_since_last_chase >= 14
    ELSE IF item.status = "acknowledged"
         THEN item.days_overdue > 0 \/ item.days_since_last_chase >= 10
    ELSE FALSE

\* ----------------------------------------------------------- ClientDocAgent
DocQueryStatuses_Any == {"pending", "sent", "overdue", "completed"}

DocQueryStatuses == {"pending", "sent", "overdue"}

CriticalDocs == {"passport", "driving_licence", "proof_of_identity"}

DocNeedsChase(r) ==
    IF r.status = "pending"
    THEN r.last_chased_at = << >> \/ DaysSince(r.last_chased_at) >= 7
    ELSE IF r.status = "sent" THEN DaysSince(r.last_chased_at) >= 5
    ELSE FALSE

DocItem(i) ==
    [BaseItem EXCEPT !.agent = "client_document", !.id = i,
        !.client_id = doc_requests[i].client_id,
        !.status = doc_requests[i].status, !.priority = doc_requests[i].priority,
        !.chase_count = doc_requests[i].chase_count,
        !.days_since_last_chase = DaysSince(doc_requests[i].last_chased_at),
        !.days_since_request = DaysSince(doc_requests[i].requested_at),
        !.days_overdue = Max(0, DaysSince(doc_requests[i].requested_at) - 14),
        !.kind = doc_requests[i].document_type,
        !.client_value_score = doc_requests[i].client_value_score,
        !.client_preferred_contact = doc_requests[i].client_preferred_contact]

DocIdentified ==
    {i \in 1..Len(doc_requests) :
        /\ doc_requests[i].status \in DocQueryStatuses
        /\ (DocNeedsChase(doc_requests[i]) \/ DaysSince(doc_requests[i].requested_at) > 14)}

Doc_calculate_priority_From21(item) ==
    LET u0 == calculate_urgency_score(item)
        u == IF item.kind \in CriticalDocs THEN u0 + 200 ELSE u0
    IN IF item.days_since_request >= 21 THEN "urgent"
       ELSE IF item.days_since_request > 14 THEN "high"
       ELSE IF u > 600 THEN "high"
       ELSE IF u > 300 THEN "medium"
       ELSE "low"

\* ClientDocAgent.calculate_priority; the urgency score is in thousandths
Doc_calculate_priority(item) ==
    LET u0 == calculate_urgency_score(item)
        u == IF item.kind \in CriticalDocs THEN u0 + 200 ELSE u0
    IN IF item.days_since_request > 21 THEN "urgent"
       ELSE IF item.days_since_request > 14 THEN "high"
       ELSE IF u > 600 THEN "high"
       ELSE IF u > 300 THEN "medium"
       ELSE "low"

Doc_should_chase_NoGate(item) ==
    IF item.days_since_request > 14 THEN TRUE
    ELSE IF item.status = "pending" /\ item.days_since_last_chase >= 7 THEN TRUE
    ELSE IF item.status = "sent" /\ item.days_since_last_chase >= 5 THEN TRUE
    ELSE FALSE

Doc_should_chase(item) ==
    IF item.days_since_last_chase < 3 THEN FALSE
    ELSE IF item.days_since_request > 14 THEN TRUE
    ELSE IF item.status = "pending" /\ item.days_since_last_chase >= 7 THEN TRUE
    ELSE IF item.status = "sent" /\ item.days_since_last_chase >= 5 THEN TRUE
    ELSE FALSE

\* ---------------------------------------------------------- PostAdviceAgent
PAQueryStatuses == {"pending", "sent", "overdue"}

PANeedsChase(r) ==
    IF r.status = "pending"
    THEN r.last_chased_at = << >> \/ DaysSince(r.last_chased_at) >= 5
    ELSE IF r.status = "sent" THEN DaysSince(r.last_chased_at) >= 4
    ELSE FALSE

PAItem(i) ==
    [BaseItem EXCEPT !.agent = "post_advice", !.id = i,
        !.client_id = post_advice_items[i].client_id,
        !.status = post_advice_items[i].status,
        !.priority = post_advice_items[i].priority,
        !.chase_count = post_advice_items[i].chase_count,
        !.days_since_last_chase = DaysSince(post_advice_items[i].last_chased_at),
        !.days_since_request = DaysSince(post_advice_items[i].requested_at),
        !.days_overdue = Max(0, DaysSince(post_advice_items[i].requested_at) - 10),
        !.kind = post_advice_items[i].item_type,
        !.client_value_score = post_advice_items[i].client_value_score,
        !.client_preferred_contact = post_advice_items[i].client_preferred_contact]

PAIdentified ==
    {i \in 1..Len(post_advice_items) :
        /\ post_advice_items[i].status \in PAQueryStatuses
        /\ (PANeedsChase(post_advice_items[i])
              \/ DaysSince(post_advice_items[i].requested_at) > 10)}

PA_calculate_priority(item) ==
    LET u0 == calculate_urgency_score(item)
        u == IF item.kind = "signed_application" THEN u0 + 250 ELSE u0
    IN IF item.days_since_request > 14 THEN "urgent"
       ELSE IF item.days_since_request > 10 THEN "high"
       ELSE IF u > 650 THEN "high"
       ELSE IF u > 350 THEN "medium"
       ELSE "low"

PA_should_chase(item) ==
    IF item.days_since_last_chase < 2 THEN FALSE
    ELSE IF item.days_since_request > 10 THEN TRUE
    ELSE IF item.status = "pending" /\ item.days_since_last_chase >= 5 THEN TRUE
    ELSE IF item.status = "sent" /\ item.days_since_last_chase >= 4 THEN TRUE
    ELSE FALSE

\* ------------------------------------------------------------ WorkflowAgent
WFQueryStatuses == {"pending", "requested", "overdue"}

CaseStatusesInProgress == {"in_progress", "pending", "awaiting_documents"}

\* the annual-review case the WorkflowItems belong to, and its client
TheCase == [case_type |-> "annual_review", status |-> "in_progress", client_id |-> 4]

TheClient == [client_value_score |-> 1000, preferred_contact |-> "email"]

WFDaysOverdue(w) ==
    IF w.due_date # << >> /\ now > w.due_date[1] THEN now - w.due_date[1] ELSE 0

\* WorkflowAgent._should_chase_for_stage on a real WorkflowItem
should_chase_for_stage(stage, substage, item_type, dsr, dslc, do) ==
    \/ /\ stage = "suitability" /\ item_type = "loa_required"
       /\ (dsr >= 3 \/ do > 0 \/ dslc >= 5)
    \/ /\ stage = "pre_meeting" /\ substage = "pack_signoff"
       /\ (dsr >= 2 \/ do > 0)
    \/ /\ stage = "pre_meeting" /\ substage = "client_responses"
       /\ (dsr >= 5 \/ dslc >= 3)
    \/ /\ stage = "meeting" /\ substage = "fact_find_update"
       /\ (dsr >= 3 \/ dslc >= 2)
    \/ do > 0
    \/ dslc >= 7

WFItem(i) ==
    [BaseItem EXCEPT !.agent = "workflow_item", !.id = i,
        !.client_id = TheCase.client_id,
        !.status = wf_items[i].status, !.priority = wf_items[i].priority,
        !.chase_count = wf_items[i].chase_count,
        !.days_since_last_chase = DaysSince(wf_items[i].last_chased_at),
        !.days_since_request = DaysSince(wf_items[i].requested_at),
        !.days_overdue = WFDaysOverdue(wf_items[i]),
        !.kind = wf_items[i].item_type,
        !.workflow_stage = wf_items[i].workflow_stage,
        !.workflow_substage = wf_items[i].workflow_substage,
        !.client_value_score = TheClient.client_value_score,
        !.client_preferred_contact = TheClient.preferred_contact]

WFIdentified ==
    {i \in 1..Len(wf_items) :
        /\ TheCase.case_type = "annual_review"
        /\ TheCase.status \in CaseStatusesInProgress
        /\ client_found
        /\ wf_items[i].status \in WFQueryStatuses
        /\ should_chase_for_stage(wf_items[i].workflow_stage,
               wf_items[i].workflow_substage, wf_items[i].item_type,
               DaysSince(wf_items[i].requested_at),
               DaysSince(wf_items[i].last_chased_at),
               WFDaysOverdue(wf_items[i]))}

fallback_priority_AtLeast(days_overdue, chase_count) ==
    IF days_overdue >= 10 \/ chase_count >= 3 THEN "urgent"
    ELSE IF days_overdue >= 5 \/ chase_count >= 1 THEN "high"
    ELSE IF days_overdue > 0 THEN "medium"
    ELSE "low"

\* LLMService._fallback_priority
fallback_priority(days_overdue, chase_count) ==
    IF days_overdue > 10 \/ chase_count > 3 THEN "urgent"
    ELSE IF days_overdue > 5 \/ chase_count > 1 THEN "high"
    ELSE IF days_overdue > 0 THEN "medium"
    ELSE "low"

\* What the LLM service does on one WorkflowItem.  prio: a Priority name the
\* model answered, "unknown" (a string that names no Priority), "raise" (an
\* answer the agent cannot use: its except clause passes), "failed" (the
\* upstream call failed, the service used its own fallback).  chase: the
\* model's should_chase answer, or "failed".
WFAnswers ==
    [prio : {"urgent", "low", "unknown", "raise", "failed"},
     chase : {"yes", "no", "failed"}]

NoAnswer == [prio |-> "raise", chase |-> "failed"]

Workflow_rule_priority(item) ==
    IF item.workflow_stage = "suitability" /\ item.kind = "loa_required"
    THEN (IF item.days_overdue > 0 THEN "urgent" ELSE "high")
    ELSE IF item.workflow_substage = "pack_signoff" THEN "urgent"
    ELSE IF item.days_overdue > 0 THEN "high"
    ELSE IF item.workflow_stage = "pre_meeting"
              /\ item.workflow_substage \in {"pack_prep", "client_responses"} THEN "high"
    ELSE IF item.workflow_stage = "meeting"
              /\ item.workflow_substage = "fact_find_update" THEN "high"
    ELSE IF item.workflow_stage = "suitability"
              /\ item.workflow_substage = "loa_collection" THEN "urgent"
    ELSE IF item.workflow_stage = "suitability"
              /\ item.workflow_substage = "suitability_letter" THEN "high"
    ELSE IF item.workflow_stage = "advice_implementation"
              /\ item.workflow_substage = "implementation_docs" THEN "high"
    ELSE "medium"

\* WorkflowAgent.calculate_priority; the context handed to the service has
\* no chase_count, so its fallback sees 0
Workflow_calculate_priority(item, ans) ==
    IF llm_configured /\ ans.prio # "raise"
    THEN (IF ans.prio = "failed" THEN fallback_priority(item.days_overdue, 0)
          ELSE IF ans.prio = "unknown" THEN "medium"
          ELSE ans.prio)
    ELSE Workflow_rule_priority(item)

\* WorkflowAgent.should_chase: "true", "false", or "raise" (the rule-based
\* branch calls _should_chase_for_stage(None, None, ...), which reads
\* item.workflow_stage of None)
Workflow_should_chase(item, ans) ==
    IF llm_configured
    THEN (IF ans.chase = "yes" THEN "true"
          ELSE IF ans.chase = "no" THEN "false"
          ELSE IF item.days_since_last_chase >= 7 THEN "true" ELSE "false")
    ELSE "raise"

\* ======================================================================
\* AgentOrchestrator (agents/orchestrator.py)
\* ======================================================================

\* _priority_to_int
priority_to_int(p) ==
    CASE p = "urgent" -> 0
      [] p = "high" -> 1
      [] p = "medium" -> 2
      [] p = "low" -> 3
      [] OTHER -> 2

KeyLess_Ascending(a, b) ==
    \/ priority_to_int(a.priority) < priority_to_int(b.priority)
    \/ /\ priority_to_int(a.priority) = priority_to_int(b.priority)
       /\ a.stuck_score < b.stuck_score

\* the sort key (priority rank, -stuck_score), compared
KeyLess(a, b) ==
    \/ priority_to_int(a.priority) < priority_to_int(b.priority)
    \/ /\ priority_to_int(a.priority) = priority_to_int(b.priority)
       /\ a.stuck_score > b.stuck_score

RECURSIVE InsertSorted(_, _)
InsertSorted(x, s) ==
    IF s = << >> THEN <<x>>
    ELSE IF KeyLess(x, Head(s)) THEN <<x>> \o s
    ELSE <<Head(s)>> \o InsertSorted(x, Tail(s))

\* list.sort(key=...): stable
RECURSIVE SortChases(_)
SortChases(s) ==
    IF s = << >> THEN << >>
    ELSE InsertSorted(s[Len(s)], SortChases(SubSeq(s, 1, Len(s) - 1)))

\* the members of S in ascending order
SeqOf(S, n) == SelectSeq([i \in 1..n |-> i], LAMBDA i : i \in S)

Chase(item, priority, stuck_score) ==
    [item |-> item, priority |-> priority, stuck_score |-> stuck_score]

LOAChases ==
    LET ids == SeqOf({i \in LOAIdentified : LOA_should_chase(LOAItem(i))}, Len(loas))
    IN [k \in 1..Len(ids) |->
           Chase(LOAItem(ids[k]), LOA_calculate_priority(LOAItem(ids[k])),
                 calculate_stuck_score(LOAItem(ids[k])))]

DocChases ==
    LET ids == SeqOf({i \in DocIdentified : Doc_should_chase(DocItem(i))}, Len(doc_requests))
    IN [k \in 1..Len(ids) |->
           Chase(DocItem(ids[k]), Doc_calculate_priority(DocItem(ids[k])),
                 calculate_stuck_score(DocItem(ids[k])))]

PAChases ==
    LET ids == SeqOf({i \in PAIdentified : PA_should_chase(PAItem(i))}, Len(post_advice_items))
    IN [k \in 1..Len(ids) |->
           Chase(PAItem(ids[k]), PA_calculate_priority(PAItem(ids[k])),
                 calculate_stuck_score(PAItem(ids[k])))]

WFChases(ans) ==
    LET ids == SeqOf({i \in WFIdentified : Workflow_should_chase(WFItem(i), ans[i]) = "true"},
                     Len(wf_items))
    IN [k \in 1..Len(ids) |->
           Chase(WFItem(ids[k]), Workflow_calculate_priority(WFItem(ids[k]), ans[ids[k]]),
                 calculate_stuck_score(WFItem(ids[k])))]

WFRaises(ans) ==
    \E i \in WFIdentified : Workflow_should_chase(WFItem(i), ans[i]) = "raise"

\* _update_item_scores over the rows an agent identified (no branch for
\* workflow_item)
LOAsScored ==
    [i \in 1..Len(loas) |->
        IF i \in LOAIdentified
        THEN [loas[i] EXCEPT !.priority = LOA_calculate_priority(LOAItem(i)),
                             !.stuck_score = calculate_stuck_score(LOAItem(i))]
        ELSE loas[i]]

DocsScored_Overdue ==
    [i \in 1..Len(doc_requests) |->
        IF i \in DocIdentified
        THEN [doc_requests[i] EXCEPT !.priority = Doc_calculate_priority(DocItem(i)),
                                     !.stuck_score = calculate_stuck_score(DocItem(i)),
                                     !.status = IF DocItem(i).days_overdue > 0
                                                THEN "overdue" ELSE @]
        ELSE doc_requests[i]]

DocsScored ==
    [i \in 1..Len(doc_requests) |->
        IF i \in DocIdentified
        THEN [doc_requests[i] EXCEPT !.priority = Doc_calculate_priority(DocItem(i)),
                                     !.stuck_score = calculate_stuck_score(DocItem(i))]
        ELSE doc_requests[i]]

PAsScored ==
    [i \in 1..Len(post_advice_items) |->
        IF i \in PAIdentified
        THEN [post_advice_items[i] EXCEPT !.priority = PA_calculate_priority(PAItem(i)),
                                          !.stuck_score = calculate_stuck_score(PAItem(i))]
        ELSE post_advice_items[i]]

Snapshot ==
    [loas |-> loas, doc_requests |-> doc_requests,
     post_advice_items |-> post_advice_items, wf_items |-> wf_items,
     n_comms |-> Len(communications), day |-> now]

NoCycleRunning == \A q \in DOMAIN pc : pc[q] # "execute"

\* Phases 1 and 2 of run_autonomous_cycle: every agent identifies, scores and
\* filters its items (in the order loa, client_document, post_advice,
\* workflow_item), then the queue is sorted.  An exception out of the
\* workflow agent ends the call with the earlier agents' scores committed.
cycle_scan(p) ==
    /\ cycles_run' = cycles_run + 1
    /\ cycle_start' = [cycle_start EXCEPT ![p] = Snapshot]
    /\ loas' = LOAsScored
    /\ doc_requests' = DocsScored
    /\ post_advice_items' = PAsScored
    /\ actions_taken' = [actions_taken EXCEPT ![p] = << >>]
    /\ next_chase' = [next_chase EXCEPT ![p] = 1]
    /\ \E ans \in [WFIdentified -> IF llm_configured THEN WFAnswers ELSE {NoAnswer}] :
          IF WFRaises(ans)
          THEN /\ pc' = [pc EXCEPT ![p] = "raised"]
               /\ all_chases' = [all_chases EXCEPT ![p] = << >>]
          ELSE LET queue == SortChases(LOAChases \o DocChases \o PAChases \o WFChases(ans))
               IN /\ all_chases' = [all_chases EXCEPT ![p] = queue]
                  /\ pc' = [pc EXCEPT ![p] = IF queue = << >> THEN "returned" ELSE "execute"]
    /\ UNCHANGED <<wfvars, now, communications, llm_configured, row_read,
                   probevars, graphvars, insightsvars>>

\* the calls of one behaviour are counted and capped
cycle_identify(p) ==
    /\ cycles_run < MaxCycles
    /\ cycle_scan(p)

\* one call at a time: the next call starts when the last one has ended
run_autonomous_cycle_identify(p) ==
    /\ NoCycleRunning
    /\ cycle_identify(p)

\* ---- select_channel
RuleChannel(item) ==
    CASE item.agent = "loa" ->
            IF item.status = "acknowledged"
            THEN (IF item.days_overdue > 10 THEN "phone" ELSE "email")
            ELSE IF item.chase_count >= 2 THEN "sms"
            ELSE IF item.client_preferred_contact = "sms" THEN "sms" ELSE "email"
      [] item.agent = "client_document" ->
            IF item.chase_count >= 2 THEN "sms"
            ELSE IF item.client_preferred_contact = "sms" THEN "sms" ELSE "email"
      [] item.agent = "post_advice" ->
            IF item.kind = "signed_application" /\ item.chase_count >= 1 THEN "sms"
            ELSE IF item.chase_count >= 2 THEN "sms"
            ELSE IF item.client_preferred_contact = "sms" THEN "sms" ELSE "email"
      [] OTHER ->
            IF /\ \/ item.workflow_substage = "pack_signoff"
                  \/ (item.workflow_stage = "suitability" /\ item.kind = "loa_required")
               /\ item.chase_count >= 1 THEN "sms"
            ELSE IF item.days_overdue > 3 THEN "sms"
            ELSE IF item.chase_count >= 2 THEN "sms"
            ELSE IF item.client_preferred_contact = "sms" THEN "sms" ELSE "email"

\* answers of LLMService.select_communication_channel; on "failed" the
\* service itself returns the client's preferred contact
ChannelAnswers == {"email", "sms", "phone", "failed"}

\* the answers run_autonomous_cycle is checked with (the service's own
\* fallback, which hands back the client's preferred contact)
CycleChannelAnswers == {"failed"}

select_channel(item, answer) ==
    IF llm_configured /\ item.agent \in {"loa", "workflow_item"}
    THEN LET name == IF answer = "failed" THEN item.client_preferred_contact ELSE answer
         IN IF name = "sms" THEN "sms" ELSE IF name = "phone" THEN "phone" ELSE "email"
    ELSE RuleChannel(item)

create_communication_ClientAsId(item, channel) ==
    [client_id |-> item.client_id, chase_type |-> item.agent, chase_id |-> item.client_id,
     channel |-> channel, direction |-> "outbound", sent_at |-> now]

\* _create_communication
create_communication(item, channel) ==
    [client_id |-> item.client_id, chase_type |-> item.agent, chase_id |-> item.id,
     channel |-> channel, direction |-> "outbound", sent_at |-> now]

\* _update_chase_metadata: re-reads the row by id; no branch for workflow_item
update_chase_metadata(item) ==
    /\ loas' = IF item.agent = "loa" /\ item.id \in 1..Len(loas)
               THEN [loas EXCEPT ![item.id].chase_count = @ + 1,
                                 ![item.id].last_chased_at = <<now>>,
                                 ![item.id].status = IF @ = "pending" THEN "sent" ELSE @]
               ELSE loas
    /\ doc_requests' =
           IF item.agent = "client_document" /\ item.id \in 1..Len(doc_requests)
           THEN [doc_requests EXCEPT ![item.id].chase_count = @ + 1,
                                     ![item.id].last_chased_at = <<now>>]
           ELSE doc_requests
    /\ post_advice_items' =
           IF item.agent = "post_advice" /\ item.id \in 1..Len(post_advice_items)
           THEN [post_advice_items EXCEPT ![item.id].chase_count = @ + 1,
                                          ![item.id].last_chased_at = <<now>>]
           ELSE post_advice_items
    /\ UNCHANGED wf_items

\* round(stuck_score, 2)
Round2(x) == ((x + 5) \div 10) * 10

\* Phase 3, one chase: communication, channel, Communication row, chase
\* metadata, actions_taken entry; after the last one the summary is returned.
run_autonomous_cycle_execute(p) ==
    /\ pc[p] = "execute"
    /\ LET chase == all_chases[p][next_chase[p]]
           item == chase.item
       IN \E answer \in IF llm_configured /\ item.agent \in {"loa", "workflow_item"}
                        THEN CycleChannelAnswers ELSE {"failed"} :
             LET channel == select_channel(item, answer)
             IN /\ communications' = Append(communications, create_communication(item, channel))
                /\ update_chase_metadata(item)
                /\ actions_taken' = [actions_taken EXCEPT ![p] = Append(@,
                       [type |-> item.agent, item_id |-> item.id, channel |-> channel,
                        priority |-> chase.priority,
                        stuck_score |-> Round2(chase.stuck_score)])]
    /\ next_chase' = [next_chase EXCEPT ![p] = @ + 1]
    /\ pc' = [pc EXCEPT ![p] = IF next_chase[p] = Len(all_chases[p])
                               THEN "returned" ELSE "execute"]
    /\ UNCHANGED <<case_stage, case_substage, meetings, client_found, wf_last, wf_ret,
                   now, llm_configured, all_chases, cycle_start, cycles_run, row_read,
                   probevars, graphvars, insightsvars>>

\* ---- the environment of the orchestrator: the clock, and items arriving
Tick ==
    /\ NoCycleRunning
    /\ now < MaxDay
    /\ now' = now + 1
    /\ UNCHANGED <<wfvars, loas, doc_requests, post_advice_items, communications,
                   llm_configured, cyclevars, probevars, graphvars, insightsvars>>

TerminalStatuses == {"received", "completed"}

\* An item arrives or is closed outside the orchestrator; a closed row stays closed.
CloseItem ==
    /\ NoCycleRunning
    /\ \/ \E i \in 1..Len(loas) :
             /\ loas[i].status \notin TerminalStatuses
             /\ loas' = [loas EXCEPT ![i].status = "received"]
             /\ UNCHANGED <<doc_requests, post_advice_items, wf_items>>
       \/ \E i \in 1..Len(doc_requests) :
             /\ doc_requests[i].status \notin TerminalStatuses
             /\ doc_requests' = [doc_requests EXCEPT ![i].status = "completed"]
             /\ UNCHANGED <<loas, post_advice_items, wf_items>>
       \/ \E i \in 1..Len(post_advice_items) :
             /\ post_advice_items[i].status \notin TerminalStatuses
             /\ post_advice_items' = [post_advice_items EXCEPT ![i].status = "received"]
             /\ UNCHANGED <<loas, doc_requests, wf_items>>
       \/ \E i \in 1..Len(wf_items) :
             /\ wf_items[i].status \notin TerminalStatuses
             /\ wf_items' = [wf_items EXCEPT ![i].status = "received"]
             /\ UNCHANGED <<loas, doc_requests, post_advice_items>>
    /\ UNCHANGED <<case_stage, case_substage, meetings, client_found, wf_last, wf_ret,
                   now, communications, llm_configured, cyclevars, probevars, graphvars, insightsvars>>

\* ---- the rows the store holds when the orchestrator is built
\* (dates are days relative to the day the orchestrator is built, day 0)
SeedChased == {<< >>, <<-5>>}

LOASeeds ==
    {[client_id |-> 1, status |-> s, priority |-> "medium",
      chase_count |-> IF lc = << >> THEN 0 ELSE 1, last_chased_at |-> lc,
      stuck_score |-> 0, expected_response_date |-> <<1>>,
      sent_to_client_at |-> IF s = "pending" THEN << >> ELSE <<-20>>,
      sent_to_provider_at |-> IF s \in {"pending", "sent"} THEN << >> ELSE <<-5>>,
      provider_reliability |-> 700, client_value_score |-> 1000] :
        s \in {"pending", "sent"}, lc \in SeedChased}

DocSeeds ==
    {[client_id |-> 2, status |-> s, priority |-> "medium",
      chase_count |-> IF lc = << >> THEN 0 ELSE 1, last_chased_at |-> lc,
      stuck_score |-> 0, requested_at |-> <<-13>>,
      document_type |-> "passport", client_value_score |-> 1000,
      client_preferred_contact |-> "email"] :
        s \in {"pending", "sent", "overdue"}, lc \in {<<-5>>}}

PASeeds ==
    {[client_id |-> 3, status |-> s, priority |-> "medium",
      chase_count |-> IF lc = << >> THEN 0 ELSE 1, last_chased_at |-> lc,
      stuck_score |-> 0, requested_at |-> <<-9>>,
      item_type |-> "signed_application", client_value_score |-> 1000,
      client_preferred_contact |-> "sms"] :
        s \in {"pending"}, lc \in {<<-5>>}}

WFSeeds ==
    {[workflow_stage |-> "pre_meeting", workflow_substage |-> "pack_signoff",
      item_type |-> "pack_signoff", status |-> s, priority |-> "medium",
      requested_at |-> <<-1>>, due_date |-> <<6>>,
      chase_count |-> 0, last_chased_at |-> << >>, stuck_score |-> 0] :
        s \in {"pending"}}

Init ==
    /\ case_stage = "pre_meeting"
    /\ case_substage = "pack_prep"
    /\ wf_items \in {<<w>> : w \in WFSeeds}
    /\ meetings = {}
    /\ client_found \in BOOLEAN
    /\ wf_last = "init"
    /\ wf_ret = NoRet
    /\ now = 0
    /\ loas \in {<<l>> : l \in LOASeeds}
    /\ doc_requests \in {<<d>> : d \in DocSeeds}
    /\ post_advice_items \in {<<a>> : a \in PASeeds}
    /\ communications = << >>
    /\ llm_configured \in BOOLEAN
    /\ pc = [p \in Procs |-> "idle"]
    /\ all_chases = [p \in Procs |-> << >>]
    /\ next_chase = [p \in Procs |-> 1]
    /\ actions_taken = [p \in Procs |-> << >>]
    /\ cycle_start = [p \in Procs |-> NoStart]
    /\ row_read = [p \in Procs |-> << >>]
    /\ cycles_run = 0
    /\ probe_fn = "none"
    /\ probe_item = BaseItem
    /\ probe_out = "none"
    /\ probe_llm = "none"
    /\ graph = NoGraph
    /\ insights = NoInsights

Next ==
    \/ \E p \in Procs : run_autonomous_cycle_identify(p)
    \/ \E p \in Procs : run_autonomous_cycle_execute(p)
    \/ Tick
    \/ CloseItem

Spec == Init /\ [][Next]_vars

\* ---------------------------------------------------------------------
\* Repeated sequential cycles as time advances: the rule-based agents (no
\* model configured), one run_autonomous_cycle call on each day, over rows
\* that are pending and have never been chased.
\* ---------------------------------------------------------------------

NeverChasedLOAs ==
    {[client_id |-> 1, status |-> "pending", priority |-> "medium",
      chase_count |-> 0, last_chased_at |-> << >>,
      stuck_score |-> 0, expected_response_date |-> e,
      sent_to_client_at |-> << >>, sent_to_provider_at |-> << >>,
      provider_reliability |-> 700, client_value_score |-> 1000] :
        e \in {<< >>, <<1>>}}

NeverChasedDocs ==
    {[client_id |-> 2, status |-> "pending", priority |-> "medium",
      chase_count |-> 0, last_chased_at |-> << >>,
      stuck_score |-> 0, requested_at |-> <<r>>,
      document_type |-> "passport", client_value_score |-> 1000,
      client_preferred_contact |-> "email"] :
        r \in {-13, -20}}

NeverChasedPAs ==
    {[client_id |-> 3, status |-> "pending", priority |-> "medium",
      chase_count |-> 0, last_chased_at |-> << >>,
      stuck_score |-> 0, requested_at |-> <<r>>,
      item_type |-> "signed_application", client_value_score |-> 1000,
      client_preferred_contact |-> "sms"] :
        r \in {-9, -15}}

\* the day's call: it starts when the day has not had its call yet
daily_identify(p) ==
    /\ NoCycleRunning
    /\ cycles_run <= now
    /\ cycle_scan(p)

\* the next day begins after the day's call has ended
DailyTick ==
    /\ cycles_run > now
    /\ Tick

DailyInit ==
    /\ case_stage = "pre_meeting"
    /\ case_substage = "pack_prep"
    /\ wf_items = << >>
    /\ meetings = {}
    /\ client_found = TRUE
    /\ wf_last = "init"
    /\ wf_ret = NoRet
    /\ now = 0
    /\ loas \in {<<l>> : l \in NeverChasedLOAs}
    /\ doc_requests \in {<<d>> : d \in NeverChasedDocs}
    /\ post_advice_items \in {<<a>> : a \in NeverChasedPAs}
    /\ communications = << >>
    /\ llm_configured = FALSE
    /\ pc = [p \in Procs |-> "idle"]
    /\ all_chases = [p \in Procs |-> << >>]
    /\ next_chase = [p \in Procs |-> 1]
    /\ actions_taken = [p \in Procs |-> << >>]
    /\ cycle_start = [p \in Procs |-> NoStart]
    /\ row_read = [p \in Procs |-> << >>]
    /\ cycles_run = 0
    /\ probe_fn = "none"
    /\ probe_item = BaseItem
    /\ probe_out = "none"
    /\ probe_llm = "none"
    /\ graph = NoGraph
    /\ insights = NoInsights

DailyNext ==
    \/ \E p \in Procs : daily_identify(p)
    \/ \E p \in Procs : run_autonomous_cycle_execute(p)
    \/ DailyTick
    \/ CloseItem

\* every day's call starts and runs to its end, and the days go by
SpecDaily ==
    /\ DailyInit
    /\ [][DailyNext]_vars
    /\ WF_vars(DailyTick)
    /\ \A p \in Procs : WF_vars(daily_identify(p)) /\ WF_vars(run_autonomous_cycle_execute(p))

\* ---------------------------------------------------------------------
\* Two run_autonomous_cycle calls on the same store, each with its own
\* session. Nothing in AgentOrchestrator keeps a second call from starting
\* while the first one runs. _update_chase_metadata queries the row,
\* changes the loaded object and commits: the query and the commit are two
\* statements, and the other call's statements can come between them.
\* ---------------------------------------------------------------------

RaceProcs == {1, 2}

\* a call starts whenever its caller is not already in one
race_identify(p) ==
    /\ pc[p] = "idle"
    /\ cycle_identify(p)

\* the row _update_chase_metadata finds for the item (<< >>: no such row,
\* or a workflow_item, for which there is no branch)
RowOf(item) ==
    IF item.agent = "loa" /\ item.id \in 1..Len(loas) THEN <<loas[item.id]>>
    ELSE IF item.agent = "client_document" /\ item.id \in 1..Len(doc_requests)
    THEN <<doc_requests[item.id]>>
    ELSE IF item.agent = "post_advice" /\ item.id \in 1..Len(post_advice_items)
    THEN <<post_advice_items[item.id]>>
    ELSE << >>

\* phase 3 of one chase up to the query of _update_chase_metadata: the
\* Communication row is committed, then the item's row is loaded
race_create_and_query(p) ==
    /\ pc[p] = "execute"
    /\ LET item == all_chases[p][next_chase[p]].item
           channel == select_channel(item, "failed")
       IN /\ communications' = Append(communications, create_communication(item, channel))
          /\ row_read' = [row_read EXCEPT ![p] = RowOf(item)]
    /\ pc' = [pc EXCEPT ![p] = "update"]
    /\ UNCHANGED <<wfvars, now, loas, doc_requests, post_advice_items, llm_configured,
                   all_chases, next_chase, actions_taken, cycle_start, cycles_run,
                   probevars, graphvars, insightsvars>>

CommitChase_NoCount(row, loaded, is_loa) ==
    [row EXCEPT !.chase_count = loaded.chase_count,
                !.last_chased_at = <<now>>,
                !.status = IF is_loa /\ loaded.status = "pending" THEN "sent" ELSE @]

\* the UPDATE the commit sends for a loaded row: the changed columns, with
\* the values computed from what was loaded
CommitChase(row, loaded, is_loa) ==
    [row EXCEPT !.chase_count = loaded.chase_count + 1,
                !.last_chased_at = <<now>>,
                !.status = IF is_loa /\ loaded.status = "pending" THEN "sent" ELSE @]

\* the rest of the chase: the commit of _update_chase_metadata and the
\* actions_taken entry
race_commit(p) ==
    /\ pc[p] = "update"
    /\ LET chase == all_chases[p][next_chase[p]]
           item == chase.item
           found == row_read[p] # << >>
       IN /\ loas' = IF found /\ item.agent = "loa"
                     THEN [loas EXCEPT ![item.id] = CommitChase(@, row_read[p][1], TRUE)]
                     ELSE loas
          /\ doc_requests' =
                 IF found /\ item.agent = "client_document"
                 THEN [doc_requests EXCEPT ![item.id] = CommitChase(@, row_read[p][1], FALSE)]
                 ELSE doc_requests
          /\ post_advice_items' =
                 IF found /\ item.agent = "post_advice"
                 THEN [post_advice_items EXCEPT
                          ![item.id] = CommitChase(@, row_read[p][1], FALSE)]
                 ELSE post_advice_items
          /\ actions_taken' = [actions_taken EXCEPT ![p] = Append(@,
                 [type |-> item.agent, item_id |-> item.id,
                  channel |-> select_channel(item, "failed"),
                  priority |-> chase.priority,
                  stuck_score |-> Round2(chase.stuck_score)])]
    /\ row_read' = [row_read EXCEPT ![p] = << >>]
    /\ next_chase' = [next_chase EXCEPT ![p] = @ + 1]
    /\ pc' = [pc EXCEPT ![p] = IF next_chase[p] = Len(all_chases[p])
                               THEN "returned" ELSE "execute"]
    /\ UNCHANGED <<wfvars, now, communications, llm_configured, all_chases, cycle_start,
                   cycles_run, probevars, graphvars, insightsvars>>

\* the store of Init, with two callers
RaceInit ==
    /\ case_stage = "pre_meeting"
    /\ case_substage = "pack_prep"
    /\ wf_items \in {<<w>> : w \in WFSeeds}
    /\ meetings = {}
    /\ client_found \in BOOLEAN
    /\ wf_last = "init"
    /\ wf_ret = NoRet
    /\ now = 0
    /\ loas \in {<<l>> : l \in LOASeeds}
    /\ doc_requests \in {<<d>> : d \in DocSeeds}
    /\ post_advice_items \in {<<a>> : a \in PASeeds}
    /\ communications = << >>
    /\ llm_configured \in BOOLEAN
    /\ pc = [p \in RaceProcs |-> "idle"]
    /\ all_chases = [p \in RaceProcs |-> << >>]
    /\ next_chase = [p \in RaceProcs |-> 1]
    /\ actions_taken = [p \in RaceProcs |-> << >>]
    /\ cycle_start = [p \in RaceProcs |-> NoStart]
    /\ row_read = [p \in RaceProcs |-> << >>]
    /\ cycles_run = 0
    /\ probe_fn = "none"
    /\ probe_item = BaseItem
    /\ probe_out = "none"
    /\ probe_llm = "none"
    /\ graph = NoGraph
    /\ insights = NoInsights

RaceNext ==
    \/ \E p \in RaceProcs : race_identify(p)
    \/ \E p \in RaceProcs : race_create_and_query(p)
    \/ \E p \in RaceProcs : race_commit(p)

SpecRace == RaceInit /\ [][RaceNext]_vars


\* ======================================================================
\* Properties of the workflow engine (checked under SpecWF)
\* ======================================================================

CurrentStageItemsReceived ==
    \A i \in 1..Len(wf_items) :
        wf_items[i].workflow_stage = case_stage => wf_items[i].status = "received"

\* C1: check_and_advance_workflow changes the case's stage only if every
\* WorkflowItem of the current stage is "received"; when some current-stage
\* item has another status the call leaves stage, substage and the items
\* unchanged and returns absent.
C1_AdvanceOnlyWhenAllReceived ==
    [][ /\ (wf_last' \in {"check", "status"} /\ case_stage' # case_stage)
            => CurrentStageItemsReceived
        /\ (wf_last' = "check" /\ ~CurrentStageItemsReceived)
            => /\ UNCHANGED <<case_stage, case_substage, wf_items>>
               /\ wf_ret'.value = None ]_vars

\* a call was refused in stage "meeting" (after an earlier advance) because an
\* item of that stage is not received
C1_Witness ==
    /\ wf_last = "check"
    /\ wf_ret.value = None
    /\ case_stage = "meeting"
    /\ ~CurrentStageItemsReceived

\* C2: the stage only moves pre_meeting -> meeting -> suitability ->
\* advice_implementation, one step per call, never backwards, never skipping,
\* and never leaves advice_implementation.
C2_StageOrder ==
    [][ (case_stage # None /\ case_stage' # case_stage)
          => \E k \in 1..3 : case_stage = Stages[k] /\ case_stage' = Stages[k + 1] ]_vars

C2_Witness ==
    /\ case_stage = "advice_implementation"
    /\ wf_last = "set_status"

\* C3: in pre_meeting with all pre_meeting items received, the call advances
\* to meeting/fact_find_update exactly when some annual_review Meeting exists
\* for the client, whatever other meetings there are.
C3_AdvanceIffAnnualReviewExists ==
    [][ (wf_last' = "check" /\ case_stage = "pre_meeting" /\ CurrentStageItemsReceived)
          => ( (\E m \in meetings : m[1] = "annual_review")
                 <=> (case_stage' = "meeting" /\ case_substage' = "fact_find_update") ) ]_vars

\* C4: the call returns stage s exactly when it changed the stage to s, and
\* absent exactly when the stage is unchanged.
C4_ReturnMatchesChange ==
    [][ wf_last' = "check"
          => /\ (wf_ret'.value = None) <=> (case_stage' = case_stage)
             /\ (wf_ret'.value # None) => (case_stage' = wf_ret'.value) ]_vars

\* C27: get_workflow_status is a pure query: it leaves the case's stage and
\* substage and the WorkflowItems unchanged, and the current_stage it reports
\* is the case's stage when the call returns.
C27_StatusIsPureQuery ==
    [][ wf_last' = "status"
          => /\ case_stage' = case_stage
             /\ case_substage' = case_substage
             /\ wf_items' = wf_items
             /\ wf_ret'.current_stage = case_stage' ]_vars

\* ======================================================================
\* One call of an agent's pure method on an item dictionary
\* ======================================================================

MaxProbeDays == 15

ChaseStatus == {"pending", "sent", "acknowledged", "received", "overdue",
                "stuck", "completed", "cancelled"}

\* LOA item dictionaries: every status, last chase 0..MaxProbeDays days ago
LOAProbeItems ==
    {[BaseItem EXCEPT !.agent = "loa", !.id = 1, !.status = s,
                      !.days_since_last_chase = d, !.days_overdue = o,
                      !.chase_count = c] :
        s \in ChaseStatus, d \in 0..MaxProbeDays, o \in 0..1, c \in 0..1}

Bool2Str(b) == IF b THEN "true" ELSE "false"

\* LOAAgent.should_chase(item) with no LLM service
CallLOAShouldChase ==
    /\ probe_fn = "none"
    /\ probe_item \in LOAProbeItems
    /\ probe_fn' = "LOAAgent.should_chase"
    /\ probe_out' = Bool2Str(LOA_should_chase(probe_item))
    /\ UNCHANGED <<probe_item, probe_llm, wfvars, storevars, cyclevars, graphvars, insightsvars>>

\* item dictionaries of the four agents for the communication methods
CommProbeItems ==
    {[BaseItem EXCEPT !.agent = a, !.id = 1, !.status = s, !.chase_count = c,
                      !.client_preferred_contact = pref] :
        a \in {"loa", "client_document", "post_advice", "workflow_item"},
        s \in {"pending", "acknowledged"}, c \in 0..2, pref \in {"email", "sms", "phone"}}

\* agents whose generate_communication and select_channel test self.llm_service
LLMCommAgents == {"loa", "workflow_item"}

\* answers of LLMService.generate_communication: the model's message, or on
\* "failed" the service's own _fallback_communication
MessageAnswers == {"ok", "failed"}

\* where the message an agent's generate_communication returns comes from
generate_communication(item, answer) ==
    IF llm_configured /\ item.agent \in LLMCommAgents
    THEN (IF answer = "failed" THEN "service_fallback" ELSE "llm")
    ELSE "template"

\* <agent>.select_channel(item)
CallSelectChannel ==
    /\ probe_fn = "none"
    /\ probe_item \in CommProbeItems
    /\ \E answer \in ChannelAnswers :
          /\ probe_llm' = answer
          /\ probe_out' = select_channel(probe_item, answer)
    /\ probe_fn' = "select_channel"
    /\ UNCHANGED <<probe_item, wfvars, storevars, cyclevars, graphvars, insightsvars>>

\* <agent>.generate_communication(item)
CallGenerateCommunication ==
    /\ probe_fn = "none"
    /\ probe_item \in CommProbeItems
    /\ \E answer \in MessageAnswers :
          /\ probe_llm' = answer
          /\ probe_out' = generate_communication(probe_item, answer)
    /\ probe_fn' = "generate_communication"
    /\ UNCHANGED <<probe_item, wfvars, storevars, cyclevars, graphvars, insightsvars>>

MaxProbeChases == 4
MaxProbeOverdue == 5

\* item dictionaries for the scores: every status, every factor from 0 up to
\* past the point where its contribution is capped
ScoreProbeItems ==
    {[BaseItem EXCEPT !.agent = "loa", !.id = 1, !.status = s,
                      !.chase_count = c, !.days_since_last_chase = d,
                      !.days_overdue = o] :
        s \in ChaseStatus, c \in 0..MaxProbeChases, d \in 0..MaxProbeDays,
        o \in 0..MaxProbeOverdue}

\* BaseAgent.calculate_stuck_score(item), in thousandths
CallCalculateStuckScore ==
    /\ probe_fn = "none"
    /\ probe_item \in ScoreProbeItems
    /\ probe_fn' = "calculate_stuck_score"
    /\ probe_out' = calculate_stuck_score(probe_item)
    /\ UNCHANGED <<probe_item, probe_llm, wfvars, storevars, cyclevars, graphvars, insightsvars>>

Substages == {"pack_prep", "pack_signoff", "client_responses", "fact_find_update",
              "meeting_notes", "loa_collection", "suitability_letter",
              "implementation_docs"}

ItemTypes == {"pack_signoff", "loa_required", "document"}

\* workflow item dictionaries: every stage, substage and item type, on time
\* and overdue
WFProbeItems ==
    {[BaseItem EXCEPT !.agent = "workflow_item", !.id = 1, !.workflow_stage = st,
                      !.workflow_substage = sub, !.kind = k, !.days_overdue = o] :
        st \in {Stages[n] : n \in 1..Len(Stages)}, sub \in Substages,
        k \in ItemTypes, o \in 0..MaxProbeOverdue}

\* what LLMService.analyze_priority can hand back (see WFAnswers)
PriorityAnswers == {"urgent", "high", "medium", "low", "unknown", "raise", "failed"}

\* WorkflowAgent.calculate_priority(item)
CallWorkflowCalculatePriority ==
    /\ probe_fn = "none"
    /\ probe_item \in WFProbeItems
    /\ \E a \in IF llm_configured THEN PriorityAnswers ELSE {"none"} :
          /\ probe_llm' = a
          /\ probe_out' = Workflow_calculate_priority(probe_item,
                                [prio |-> a, chase |-> "failed"])
    /\ probe_fn' = "WorkflowAgent.calculate_priority"
    /\ UNCHANGED <<probe_item, wfvars, storevars, cyclevars, graphvars, insightsvars>>

\* ---- AnalyticsEngine.predict_bottlenecks, the LOA loop (agents/analytics.py)
BottleneckStatuses == {"pending", "sent", "acknowledged"}

RiskThreshold == 500

\* LOA rows with their provider's reliability_score; dates are days relative
\* to the day of the call
RiskProbeRows ==
    [agent : {"analytics"},
     status : BottleneckStatuses \cup {"overdue", "received"},
     provider_reliability : {500, 600, 700},
     expected_response_date : {<< >>, <<-6>>, <<-3>>, <<0>>},
     chase_count : 0..MaxProbeChases,
     stuck_score : {0, 500, 1000},
     last_chased_at : {<< >>, <<-MaxProbeDays>>, <<-(MaxProbeDays + 1)>>}]

\* the five factors of one LOA: what each adds to risk_score (thousandths)
\* and the string it appends to risk_factors, if any
RiskFactors(l) ==
    << IF l.provider_reliability < 600
       THEN [add |-> 300, text |-> <<"Low provider reliability">>]
       ELSE [add |-> 0, text |-> << >>],
       IF l.expected_response_date # << >> /\ now > l.expected_response_date[1]
       THEN [add |-> Min(LOADaysOverdue(l) * 100, 400), text |-> <<"days overdue">>]
       ELSE [add |-> 0, text |-> << >>],
       IF l.chase_count > 3
       THEN [add |-> 200, text |-> <<"High chase count">>]
       ELSE [add |-> 0, text |-> << >>],
       [add |-> (l.stuck_score * 3) \div 10, text |-> << >>],
       IF l.last_chased_at # << >> /\ DaysSince(l.last_chased_at) > 15
       THEN [add |-> 150, text |-> <<"No chase in days">>]
       ELSE [add |-> 0, text |-> << >>] >>

risk_score(l) ==
    LET f == RiskFactors(l) IN f[1].add + f[2].add + f[3].add + f[4].add + f[5].add

risk_factors(l) ==
    LET f == RiskFactors(l) IN f[1].text \o f[2].text \o f[3].text \o f[4].text \o f[5].text

\* what predict_bottlenecks returns about one LOA row
predict_bottlenecks(l) ==
    IF l.status \in BottleneckStatuses /\ risk_score(l) > RiskThreshold
    THEN [reported |-> TRUE, risk_score |-> risk_score(l), risk_factors |-> risk_factors(l)]
    ELSE [reported |-> FALSE, risk_score |-> 0, risk_factors |-> << >>]

CallPredictBottlenecks ==
    /\ probe_fn = "none"
    /\ probe_item \in RiskProbeRows
    /\ probe_fn' = "predict_bottlenecks"
    /\ probe_out' = predict_bottlenecks(probe_item)
    /\ UNCHANGED <<probe_item, probe_llm, wfvars, storevars, cyclevars, graphvars, insightsvars>>

\* ---- the no-op data-access stand-in (mock_db.py)
MockQueryMethods_NoJoin == {"filter", "filter_by", "all", "first", "count"}

\* the methods MockQuery defines
MockQueryMethods == {"filter", "filter_by", "join", "all", "first", "count"}

MockOps == {"predict_bottlenecks", "get_provider_performance",
            "calculate_case_velocity", "run_autonomous_cycle"}

LOAQueryChain == <<"join", "join", "join", "filter", "all">>
DocQueryChain == <<"join", "join", "filter", "all">>

\* the method chains an operation calls on db.query(...) when every all()
\* gives [] and every first() gives None
QueriesOnEmpty(op) ==
    CASE op = "predict_bottlenecks" -> <<LOAQueryChain, DocQueryChain>>
      [] op = "get_provider_performance" -> << <<"all">> >>
      [] op = "calculate_case_velocity" -> << <<"filter_by", "first">> >>
      [] op = "run_autonomous_cycle" ->
            <<LOAQueryChain, DocQueryChain, DocQueryChain, <<"filter", "all">> >>

NoOutcome == [outcome |-> "none", total_items_identified |-> 0, actions_taken |-> << >>]

\* what the operation returns when its queries found no rows; the cycle is
\* the orchestrator's own phases over the (empty) store
ResultOnEmpty(op) ==
    CASE op = "calculate_case_velocity" -> [NoOutcome EXCEPT !.outcome = "absent"]
      [] op = "run_autonomous_cycle" ->
            LET ans == [i \in WFIdentified |-> NoAnswer]
                queue == SortChases(LOAChases \o DocChases \o PAChases \o WFChases(ans))
            IN IF WFRaises(ans) THEN [NoOutcome EXCEPT !.outcome = "raised"]
               ELSE [outcome |-> "summary", total_items_identified |-> Len(queue),
                     actions_taken |-> [k \in 1..Len(queue) |-> queue[k].item.id]]
      [] OTHER -> [NoOutcome EXCEPT !.outcome = "empty"]

\* the operation run with a MockSession: a method MockQuery lacks is an
\* AttributeError
RunOnMock(op) ==
    IF \E c \in 1..Len(QueriesOnEmpty(op)) :
          \E k \in 1..Len(QueriesOnEmpty(op)[c]) :
             QueriesOnEmpty(op)[c][k] \notin MockQueryMethods
    THEN [NoOutcome EXCEPT !.outcome = "raised"]
    ELSE ResultOnEmpty(op)

MockCalls == [agent : {"mock"}, op : MockOps]

CallOnMock ==
    /\ probe_fn = "none"
    /\ probe_item \in MockCalls
    /\ probe_fn' = "mock"
    /\ probe_out' = RunOnMock(probe_item.op)
    /\ UNCHANGED <<probe_item, probe_llm, wfvars, storevars, cyclevars, graphvars, insightsvars>>

\* ---- WorkflowIntelligence with a MockSession (workflow_intelligence.py)

WorkflowMockOps == {"check_and_advance_workflow", "get_workflow_status"}

\* the chains check_and_advance_workflow calls for a case in the stage: the
\* stage's items (all() gives [], so all(...) of them is true), then the
\* latest Meeting in pre_meeting, the Client in advance_to_suitability_stage
\* (first() gives None: it returns early) in meeting
CheckQueriesOnEmpty(stage) ==
    CASE stage = "pre_meeting" ->
            << <<"filter_by", "all">>, <<"filter_by", "order_by", "first">> >>
      [] stage = "meeting" -> << <<"filter_by", "all">>, <<"filter_by", "first">> >>
      [] stage = "suitability" -> << <<"filter_by", "all">> >>
      [] OTHER -> << >>

\* get_workflow_status queries the case's items, then calls
\* check_and_advance_workflow
WorkflowQueriesOnEmpty(op, stage) ==
    IF op = "get_workflow_status"
    THEN << <<"filter_by", "all">> >> \o CheckQueriesOnEmpty(stage)
    ELSE CheckQueriesOnEmpty(stage)

\* what check_and_advance_workflow returns when no row is found
CheckValueOnEmpty(stage) ==
    CASE stage = "pre_meeting" -> None
      [] stage = "meeting" -> "suitability"
      [] stage = "suitability" -> "advice_implementation"
      [] OTHER -> None

\* the operation run with a MockSession on a case in the stage
WorkflowOnMock(op, stage) ==
    LET chains == WorkflowQueriesOnEmpty(op, stage)
    IN IF \E c \in 1..Len(chains) : \E k \in 1..Len(chains[c]) :
             chains[c][k] \notin MockQueryMethods
       THEN [outcome |-> "raised", value |-> None, can_advance |-> FALSE]
       ELSE [outcome |-> "returned",
             value |-> IF op = "get_workflow_status" THEN None ELSE CheckValueOnEmpty(stage),
             can_advance |-> op = "get_workflow_status" /\ CheckValueOnEmpty(stage) # None]

WorkflowMockCalls ==
    [agent : {"mock_workflow"}, op : WorkflowMockOps,
     stage : {Stages[k] : k \in 1..Len(Stages)}]

CallWorkflowOnMock ==
    /\ probe_fn = "none"
    /\ probe_item \in WorkflowMockCalls
    /\ probe_fn' = "workflow_on_mock"
    /\ probe_out' = WorkflowOnMock(probe_item.op, probe_item.stage)
    /\ UNCHANGED <<probe_item, probe_llm, wfvars, storevars, cyclevars, graphvars, insightsvars>>

\* ---- ClientDocAgent.calculate_priority called on its own

MaxRequestDays == 23

\* Items as ClientDocAgent.identify_chases_needed builds them (days_overdue is
\* max(0, days_since_request - 14)). The client value scores and chase counts
\* are ones at which the binary floating point sums of the code equal the
\* decimal sums, so the thousandths computed here are the code's scores.
DocPriorityProbeItems ==
    {[BaseItem EXCEPT !.agent = "client_document", !.priority = p,
                      !.days_since_request = d, !.days_overdue = Max(0, d - 14),
                      !.chase_count = c, !.client_value_score = v, !.kind = k] :
        p \in {"urgent", "high", "medium", "low"}, d \in 0..MaxRequestDays,
        c \in {0, 2},
        v \in {1000, 1500, 2000}, k \in {"passport", "p60"}}

CallDocCalculatePriority ==
    /\ probe_fn = "none"
    /\ probe_item \in DocPriorityProbeItems
    /\ probe_fn' = "Doc_calculate_priority"
    /\ probe_out' = Doc_calculate_priority(probe_item)
    /\ UNCHANGED <<probe_item, probe_llm, wfvars, storevars, cyclevars, graphvars, insightsvars>>

\* ---- LLMService.analyze_priority (agents/llm_service.py)

\* what chain.invoke({}) gives: the parsed answer of the model, or it raises
AnalysisAnswers ==
    [failed : {FALSE}, priority : {"urgent", "low"}, urgency_score : {900}]
    \cup {[failed |-> TRUE, priority |-> "none", urgency_score |-> 0]}

\* analyze_priority: one chain.invoke; its answer as it is, or the result of
\* _fallback_priority when it raised. invocations counts the chain.invoke
\* calls made, urgency_score is in thousandths.
analyze_priority(item_context, answer) ==
    IF answer.failed
    THEN [priority |-> fallback_priority(item_context.days_overdue, item_context.chase_count),
          reasoning |-> "Rule-based fallback",
          urgency_score |-> Min(item_context.days_overdue * 100
                                + item_context.chase_count * 150, 1000),
          invocations |-> 1, raised |-> FALSE]
    ELSE [priority |-> answer.priority, reasoning |-> "model",
          urgency_score |-> answer.urgency_score, invocations |-> 1, raised |-> FALSE]

PriorityProbeItems ==
    {[BaseItem EXCEPT !.agent = "llm_service", !.days_overdue = o, !.chase_count = c] :
        o \in 0..MaxProbeDays, c \in 0..MaxProbeChases}

CallAnalyzePriority ==
    /\ probe_fn = "none"
    /\ probe_item \in PriorityProbeItems
    /\ \E answer \in AnalysisAnswers :
          /\ probe_llm' = IF answer.failed THEN "failed" ELSE "ok"
          /\ probe_out' = analyze_priority(probe_item, answer)
    /\ probe_fn' = "analyze_priority"
    /\ UNCHANGED <<probe_item, wfvars, storevars, cyclevars, graphvars, insightsvars>>

\* ---------------------------------------------------------------------
\* ChasingEngine (agents/chasing_engine.py): the built-in datasets and the
\* two operations that walk all three of them. Days are whole days, client
\* value scores are in tenths; an optional value is << >> (None or no such
\* key) or <<v>>.
\* ---------------------------------------------------------------------

EngineItem(category, id, case_id, case_type, priority, score) ==
    [category |-> category, id |-> id, case_id |-> case_id, case_type |-> case_type,
     priority |-> priority, client_value_score |-> score,
     sent_to_provider_at |-> << >>, days_overdue |-> << >>, days_waiting |-> << >>,
     is_stuck |-> FALSE, is_blocking |-> FALSE]

\* the loas list of identify_loas_needing_chase; LOA 4 awaits the client's
\* signature: it has sent_to_client_at instead of sent_to_provider_at and
\* days_overdue None
EngineLOAs ==
    << [EngineItem("loa", 1, 101, "pension_consolidation", "high", 85)
            EXCEPT !.sent_to_provider_at = <<25>>, !.days_overdue = <<5>>, !.is_stuck = TRUE],
       [EngineItem("loa", 2, 102, "pension_consolidation", "medium", 72)
            EXCEPT !.sent_to_provider_at = <<18>>, !.days_overdue = <<0>>],
       [EngineItem("loa", 3, 103, "pension_transfer", "urgent", 91)
            EXCEPT !.sent_to_provider_at = <<35>>, !.days_overdue = <<15>>, !.is_stuck = TRUE],
       EngineItem("loa", 4, 104, "pension_consolidation", "high", 68) >>

\* the documents list of identify_documents_needing_chase
EngineDocuments ==
    << [EngineItem("document", 1, 201, "pension_consolidation", "high", 75)
            EXCEPT !.days_waiting = <<14>>, !.is_blocking = TRUE],
       [EngineItem("document", 2, 202, "investment_advice", "medium", 62)
            EXCEPT !.days_waiting = <<7>>, !.is_blocking = TRUE],
       [EngineItem("document", 3, 203, "tax_planning", "urgent", 89)
            EXCEPT !.days_waiting = <<21>>, !.is_blocking = TRUE],
       [EngineItem("document", 4, 204, "annual_review", "low", 55)
            EXCEPT !.days_waiting = <<5>>] >>

\* the items list of identify_post_advice_items_needing_chase
EnginePostAdvice ==
    << [EngineItem("post_advice", 1, 301, "investment_advice", "high", 78)
            EXCEPT !.days_waiting = <<12>>],
       [EngineItem("post_advice", 2, 302, "pension_advice", "medium", 65)
            EXCEPT !.days_waiting = <<8>>],
       [EngineItem("post_advice", 3, 303, "pension_transfer", "urgent", 92)
            EXCEPT !.days_waiting = <<18>>] >>

\* x if the optional value is <<x>>, else d
OrElse(opt, d) == IF opt = << >> THEN d ELSE opt[1]

\* lexicographic order of two keys of the same length
RECURSIVE TupleLess(_, _)
TupleLess(a, b) ==
    IF a = << >> THEN FALSE
    ELSE IF Head(a) # Head(b) THEN Head(a) < Head(b)
    ELSE TupleLess(Tail(a), Tail(b))

\* sorted(items, key=...): stable, ascending by key; keys[i] is the key of
\* items[i]
RECURSIVE SortedByKey(_, _)
SortedByKey(items, keys) ==
    IF items = << >> THEN << >>
    ELSE LET n == Len(items)
             first == SortedByKey(SubSeq(items, 1, n - 1), SubSeq(keys, 1, n - 1))
             firstKeys == SortedByKey(SubSeq(keys, 1, n - 1), SubSeq(keys, 1, n - 1))
             \* the last element goes after every element whose key is not greater
             pos == Cardinality({i \in 1..(n - 1) : ~TupleLess(keys[n], firstKeys[i])})
         IN  SubSeq(first, 1, pos) \o <<items[n]>> \o SubSeq(first, pos + 1, n - 1)

\* the return of the three identify_* operations called without filters:
\* by priority rank, then days overdue (LOAs) or days waiting, then score
EngineIdentified(items) ==
    SortedByKey(items,
        [i \in 1..Len(items) |->
            << priority_to_int(items[i].priority),
               0 - (IF items[i].category = "loa" THEN OrElse(items[i].days_overdue, 0)
                    ELSE OrElse(items[i].days_waiting, 0)),
               0 - items[i].client_value_score >>])

EngineRaised(error, at) == [outcome |-> "raised", error |-> error, at |-> at, items |-> << >>]

\* the items of a list at or above the threshold, with their days_stuck (read
\* from the named key)
StuckOf(items, key, threshold) ==
    SelectSeq([i \in 1..Len(items) |-> [item |-> items[i], days_stuck |-> items[i][key][1]]],
              LAMBDA r : r.days_stuck >= threshold)

\* find_stuck_items: loa['sent_to_provider_at'] is read for every LOA
\* before the comparison with the threshold
find_stuck_items(stuck_threshold_days) ==
    LET loas_ == EngineIdentified(EngineLOAs)
        all_items ==
            StuckOf(loas_, "sent_to_provider_at", stuck_threshold_days)
            \o StuckOf(EngineIdentified(EngineDocuments), "days_waiting", stuck_threshold_days)
            \o StuckOf(EngineIdentified(EnginePostAdvice), "days_waiting", stuck_threshold_days)
    IN  IF \E k \in 1..Len(loas_) : loas_[k].sent_to_provider_at = << >>
        THEN EngineRaised("KeyError", "loas")
        ELSE [outcome |-> "returned", error |-> "none", at |-> "return",
              items |-> SortedByKey(all_items,
                            [k \in 1..Len(all_items) |->
                                << 0 - all_items[k].days_stuck,
                                   0 - all_items[k].item.client_value_score >>])]

\* an item passes the case filters of identify_case_blocking_items
\* (case_id 0 and case_type "none": no filter)
PassesCaseFilter(item, case_id, case_type) ==
    /\ case_id = 0 \/ item.case_id = case_id
    /\ case_type = "none" \/ item.case_type = case_type

\* identify_case_blocking_items: loa.get('is_stuck') or
\* loa.get('days_overdue', 0) > 0 compares None with 0 for an LOA whose
\* days_overdue is None; the loop header of the post-advice items reads the
\* names post and advice, which are not defined
identify_case_blocking_items(case_id, case_type) ==
    LET loas_ == EngineIdentified(EngineLOAs)
    IN  IF \E k \in 1..Len(loas_) :
              /\ PassesCaseFilter(loas_[k], case_id, case_type)
              /\ ~loas_[k].is_stuck
              /\ loas_[k].days_overdue = << >>
        THEN EngineRaised("TypeError", "loas")
        ELSE EngineRaised("NameError", "post_advice")

\* the threshold days asked of find_stuck_items
MaxThreshold == 36

EngineCaseIds == {0, 101, 103, 104, 201, 303, 999}
EngineCaseTypes == {"none", "pension_consolidation", "pension_transfer", "annual_review"}

EngineCalls ==
    [agent : {"engine"}, op : {"find_stuck_items"}, threshold : 0..MaxThreshold,
     case_id : {0}, case_type : {"none"}]
    \cup [agent : {"engine"}, op : {"identify_case_blocking_items"}, threshold : {0},
          case_id : EngineCaseIds, case_type : EngineCaseTypes]

CallChasingEngine ==
    /\ probe_fn = "none"
    /\ probe_item \in EngineCalls
    /\ probe_fn' = probe_item.op
    /\ probe_out' = IF probe_item.op = "find_stuck_items"
                    THEN find_stuck_items(probe_item.threshold)
                    ELSE identify_case_blocking_items(probe_item.case_id, probe_item.case_type)
    /\ UNCHANGED <<probe_item, probe_llm, wfvars, storevars, cyclevars, graphvars, insightsvars>>

ProbeItems ==
    LOAProbeItems \cup CommProbeItems \cup ScoreProbeItems \cup WFProbeItems
        \cup RiskProbeRows \cup MockCalls \cup EngineCalls \cup PriorityProbeItems
        \cup DocPriorityProbeItems \cup WorkflowMockCalls

ProbeInit ==
    /\ probe_fn = "none"
    /\ probe_item \in ProbeItems
    /\ probe_out = "none"
    /\ probe_llm = "none"
    /\ graph = NoGraph
    /\ insights = NoInsights
    /\ case_stage = None
    /\ case_substage = None
    /\ wf_items = << >>
    /\ meetings = {}
    /\ client_found = TRUE
    /\ wf_last = "init"
    /\ wf_ret = NoRet
    /\ now = 0
    /\ loas = << >>
    /\ doc_requests = << >>
    /\ post_advice_items = << >>
    /\ communications = << >>
    /\ llm_configured \in BOOLEAN
    /\ pc = [p \in Procs |-> "idle"]
    /\ all_chases = [p \in Procs |-> << >>]
    /\ next_chase = [p \in Procs |-> 1]
    /\ actions_taken = [p \in Procs |-> << >>]
    /\ cycle_start = [p \in Procs |-> NoStart]
    /\ row_read = [p \in Procs |-> << >>]
    /\ cycles_run = 0

ProbeNext ==
    \/ CallLOAShouldChase
    \/ CallSelectChannel
    \/ CallGenerateCommunication
    \/ CallCalculateStuckScore
    \/ CallWorkflowCalculatePriority
    \/ CallPredictBottlenecks
    \/ CallOnMock
    \/ CallChasingEngine
    \/ CallAnalyzePriority
    \/ CallDocCalculatePriority
    \/ CallWorkflowOnMock

SpecProbe == ProbeInit /\ [][ProbeNext]_vars

\* ======================================================================
\* Properties of the sequential orchestrator
\* ======================================================================

\* the rows of one chase type in a store (the live one or a cycle's snapshot)
RowsOf(store, type) ==
    CASE type = "loa" -> store.loas
      [] type = "client_document" -> store.doc_requests
      [] type = "post_advice" -> store.post_advice_items
      [] OTHER -> store.wf_items

Rank(priority) ==
    CASE priority = "urgent" -> 0
      [] priority = "high" -> 1
      [] priority = "medium" -> 2
      [] OTHER -> 3

ChaseTypes == {"loa", "client_document", "post_advice", "workflow_item"}

\* the Communications the running or last cycle of p has created
CycleComms(p) ==
    {k \in 1..Len(communications) : k > cycle_start[p].n_comms}

\* C5: when a cycle returns its summary, the entity of every action it took
\* (loa, client_document, post_advice or workflow_item) has a chase_count one
\* higher than when the cycle started and last_chased_at at the time of the
\* chase, and an LOA that was pending is sent.
C5_ChaseMetadataUpdated ==
    [][ \A p \in Procs :
          (pc[p] = "execute" /\ pc'[p] = "returned") =>
             \A k \in 1..Len(actions_taken'[p]) :
                LET a == actions_taken'[p][k]
                    before == RowsOf(cycle_start[p], a.type)[a.item_id]
                    after == RowsOf(Snapshot', a.type)[a.item_id]
                IN /\ after.chase_count = before.chase_count + 1
                   /\ after.last_chased_at = <<cycle_start[p].day>>
                   /\ (a.type = "loa" /\ before.status = "pending")
                         => after.status = "sent" ]_vars

\* C6: actions_taken is in ascending order of (priority rank, -stuck_score)
\* with urgent=0, high=1, medium=2, low=3.
C6_ActionsInPriorityOrder ==
    \A p \in Procs :
       \A i \in 1..Len(actions_taken[p]) : \A j \in 1..Len(actions_taken[p]) :
          i < j =>
             LET a == actions_taken[p][i]
                 b == actions_taken[p][j]
             IN \/ Rank(a.priority) < Rank(b.priority)
                \/ /\ Rank(a.priority) = Rank(b.priority)
                   /\ a.stuck_score >= b.stuck_score

\* a returned cycle whose first action comes from an agent that ran after the
\* agent of its second action, and a pair of equal rank and unequal score
C6_Witness ==
    \E p \in Procs :
       /\ pc[p] = "returned"
       /\ Len(actions_taken[p]) >= 3
       /\ actions_taken[p][1].type = "post_advice"
       /\ Rank(actions_taken[p][1].priority) < Rank(actions_taken[p][3].priority)
       /\ \E i \in 1..Len(actions_taken[p]) : \E j \in 1..Len(actions_taken[p]) :
             /\ i < j
             /\ actions_taken[p][i].priority = actions_taken[p][j].priority
             /\ actions_taken[p][i].stuck_score > actions_taken[p][j].stuck_score

\* C7: with no LLM service configured a cycle never ends in an exception:
\* the workflow agent's rule-based should_chase answers for every item it
\* identified and the cycle returns its summary.
C7_RuleBasedCycleReturns ==
    ~llm_configured => \A p \in Procs : pc[p] # "raised"

\* C8: an entity that is received or completed when a cycle starts gets no
\* Communication and no chase_count increment from that cycle.
C8_ClosedItemsNotChased ==
    \A p \in Procs :
       pc[p] \in {"execute", "returned", "raised"} =>
          \A t \in ChaseTypes :
             \A i \in 1..Len(RowsOf(cycle_start[p], t)) :
                RowsOf(cycle_start[p], t)[i].status \in TerminalStatuses =>
                   /\ RowsOf(Snapshot, t)[i].chase_count
                         = RowsOf(cycle_start[p], t)[i].chase_count
                   /\ \A k \in CycleComms(p) :
                         ~(communications[k].chase_type = t
                           /\ communications[k].chase_id = i)

\* a cycle that started after a DocumentRequest was completed, though that
\* request had been chased before, and that chased something else
C8_Witness ==
    \E p \in Procs :
       /\ pc[p] = "returned"
       /\ cycles_run >= 2
       /\ cycle_start[p].doc_requests[1].status = "completed"
       /\ cycle_start[p].doc_requests[1].chase_count >= 2
       /\ CycleComms(p) # {}

\* C9: two chases of the same DocumentRequest are at least 3 days apart, of
\* the same PostAdviceItem at least 2, of the same LOA at least 3 unless the
\* LOA is overdue at the later one.
C9_MinimumChaseInterval ==
    \A i \in 1..Len(communications) : \A j \in 1..Len(communications) :
       (/\ i < j
        /\ communications[i].chase_type = communications[j].chase_type
        /\ communications[i].chase_id = communications[j].chase_id) =>
          LET t == communications[j].chase_type
              gap == communications[j].sent_at - communications[i].sent_at
              erd == loas[communications[j].chase_id].expected_response_date
          IN /\ t = "client_document" => gap >= 3
             /\ t = "post_advice" => gap >= 2
             /\ t = "loa" =>
                   \/ gap >= 3
                   \/ erd # << >> /\ communications[j].sent_at > erd[1]

\* rule-based agents only: a DocumentRequest chased in two cycles, 3 days
\* apart
C9_Witness ==
    /\ ~llm_configured
    /\ cycles_run >= 2
    /\ \E i \in 1..Len(communications) : \E j \in 1..Len(communications) :
          /\ i < j
          /\ communications[i].chase_type = "client_document"
          /\ communications[j].chase_type = "client_document"
          /\ communications[j].sent_at - communications[i].sent_at = 3


\* what the running or last cycle of p has done to the store since it started
CycleFrame(p) ==
    \A t \in ChaseTypes : \A i \in 1..Len(RowsOf(Snapshot, t)) :
        LET before == RowsOf(cycle_start[p], t)[i]
            after == RowsOf(Snapshot, t)[i]
            chased == \E k \in 1..Len(actions_taken[p]) :
                         actions_taken[p][k].type = t /\ actions_taken[p][k].item_id = i
        IN /\ ~chased => [after EXCEPT !.priority = before.priority,
                                       !.stuck_score = before.stuck_score] = before
           /\ after.status # before.status
                 => (t = "loa" /\ before.status = "pending" /\ after.status = "sent")
           /\ after.status \in TerminalStatuses => before.status = after.status
           /\ after.chase_count >= before.chase_count

\* C28: a sequential cycle changes nothing on an entity it does not chase
\* except priority and stuck_score; the only status change it makes is an
\* LOA from pending to sent; it never sets received or completed and never
\* lowers a chase_count. (Checked after every step of a cycle.)
C28_CycleFrame ==
    [][ \A p \in Procs :
          (cycles_run' # cycles_run \/ pc[p] = "execute") => CycleFrame(p)' ]_vars

\* a cycle has ended in which an LOA went from pending to sent and an entity
\* that was not chased got another priority or stuck_score
C28_Witness ==
    \E p \in Procs :
       /\ pc[p] = "returned"
       /\ cycle_start[p].day = now
       /\ CycleFrame(p)
       /\ cycle_start[p].loas[1].status = "pending"
       /\ loas[1].status = "sent"
       /\ \E t \in ChaseTypes : \E i \in 1..Len(RowsOf(Snapshot, t)) :
             /\ RowsOf(Snapshot, t)[i] # RowsOf(cycle_start[p], t)[i]
             /\ \A k \in 1..Len(actions_taken[p]) :
                   ~(actions_taken[p][k].type = t /\ actions_taken[p][k].item_id = i)


\* C29: in one sequential cycle the number of Communications created equals
\* the number of entries in actions_taken; each is outbound and carries the
\* chase type, item id and client id of its action (the k-th entry is the
\* k-th chase of the queue); no item is chased more than once in the cycle.
C29_OneCommunicationPerAction ==
    \A p \in Procs :
       /\ Len(communications) - cycle_start[p].n_comms = Len(actions_taken[p])
       /\ \A k \in 1..Len(actions_taken[p]) :
             LET a == actions_taken[p][k]
                 c == communications[cycle_start[p].n_comms + k]
                 item == all_chases[p][k].item
             IN /\ c.direction = "outbound"
                /\ c.chase_type = a.type
                /\ c.chase_id = a.item_id
                /\ a.item_id = item.id
                /\ a.type = item.agent
                /\ c.client_id = item.client_id
       /\ \A j \in 1..Len(actions_taken[p]) : \A k \in 1..Len(actions_taken[p]) :
             (j # k) => ~(/\ actions_taken[p][j].type = actions_taken[p][k].type
                          /\ actions_taken[p][j].item_id = actions_taken[p][k].item_id)

\* the second cycle of a behaviour has returned after three chases of
\* different types
C29_Witness ==
    \E p \in Procs :
       /\ pc[p] = "returned"
       /\ cycle_start[p].n_comms > 0
       /\ Len(actions_taken[p]) = 3
       /\ Len(communications) = cycle_start[p].n_comms + 3
       /\ {"loa", "client_document"} \subseteq {actions_taken[p][k].type : k \in 1..3}

\* ======================================================================
\* Properties of the agents' pure methods
\* ======================================================================

\* ---- claim about overlapping cycles (checked under SpecRace) ----

RaceTypes == {"loa", "client_document", "post_advice"}

\* has the call of p queued the item
Queued(p, type, id) ==
    \E k \in 1..Len(all_chases[p]) :
       all_chases[p][k].item.agent = type /\ all_chases[p][k].item.id = id

CommsFor(type, id) ==
    Cardinality({k \in 1..Len(communications) :
                    communications[k].chase_type = type /\ communications[k].chase_id = id})

\* both calls have identified the item and both have returned
BothChased(type, id) ==
    /\ \A p \in RaceProcs : pc[p] = "returned" /\ Queued(p, type, id)

\* the chase_count the item had before the two calls
CountBefore(type, id) ==
    Min(RowsOf(cycle_start[1], type)[id].chase_count,
        RowsOf(cycle_start[2], type)[id].chase_count)

\* C23: two overlapping cycles are not kept apart. When both have identified
\* the same LOA, document request or post-advice item, the item gets two
\* Communications, and its chase_count has gone up by two or, when one
\* call's commit overwrote the other's, by one only.
C23_OverlappingCyclesChaseTwice ==
    \A type \in RaceTypes : \A id \in 1..Len(RowsOf(Snapshot, type)) :
       BothChased(type, id) =>
          /\ CommsFor(type, id) = 2
          /\ RowsOf(Snapshot, type)[id].chase_count - CountBefore(type, id) \in {1, 2}

\* both calls have chased the same item: two Communications were created for
\* it and its chase_count went up by one only
C23_Witness ==
    \E type \in RaceTypes : \E id \in 1..Len(RowsOf(Snapshot, type)) :
       /\ BothChased(type, id)
       /\ CommsFor(type, id) = 2
       /\ RowsOf(Snapshot, type)[id].chase_count = CountBefore(type, id) + 1
       /\ RowsOf(Snapshot, type)[id].chase_count - CountBefore(type, id) < CommsFor(type, id)

\* C10: for an LOA item with status sent and days_overdue 0 the rule-based
\* LOAAgent.should_chase returns true exactly when days_since_last_chase
\* is at least 14.
C10_LOASentThreshold ==
    (/\ probe_fn = "LOAAgent.should_chase"
     /\ probe_item.status = "sent"
     /\ probe_item.days_overdue = 0) =>
        (probe_out = "true" <=> probe_item.days_since_last_chase >= 14)

C10_Witness ==
    /\ probe_fn = "LOAAgent.should_chase"
    /\ probe_item.status = "sent"
    /\ probe_item.days_overdue = 0
    /\ probe_item.days_since_last_chase = 14
    /\ probe_out = "true"

\* C11: with an LLM service configured, each agent's select_channel returns
\* the channel the service answered and its generate_communication the
\* service's message, and the agent's own rule-table channel or template
\* only when the call failed.
C11_LLMFirstForCommunication ==
    (llm_configured /\ probe_fn \in {"select_channel", "generate_communication"}) =>
        IF probe_fn = "select_channel"
        THEN IF probe_llm = "failed" THEN probe_out = RuleChannel(probe_item)
             ELSE probe_out = probe_llm
        ELSE IF probe_llm = "failed" THEN probe_out = "template"
             ELSE probe_out = "llm"

\* C12: calculate_stuck_score returns a value in [0, 1] (0..1000 thousandths),
\* at least 0.8 for status "stuck" and at least 0.6 for status "overdue",
\* whatever chase_count, days_since_last_chase and days_overdue are.
C12_StuckScoreRange ==
    probe_fn = "calculate_stuck_score" =>
        /\ probe_out >= 0 /\ probe_out <= 1000
        /\ probe_item.status = "stuck" => probe_out >= 800
        /\ probe_item.status = "overdue" => probe_out >= 600

\* a stuck item with no other factor scores exactly the floor
C12_Witness ==
    /\ probe_fn = "calculate_stuck_score"
    /\ probe_item.status = "stuck"
    /\ probe_item.chase_count = 0
    /\ probe_item.days_since_last_chase = 0
    /\ probe_item.days_overdue = 0
    /\ probe_out = 800

\* C13: WorkflowAgent.calculate_priority never returns less than HIGH for an
\* item with days_overdue > 0, with no LLM service, with an LLM answer, or
\* with the service's fallback priority.
C13_OverdueAtLeastHigh ==
    (probe_fn = "WorkflowAgent.calculate_priority" /\ probe_item.days_overdue > 0)
        => probe_out \in {"urgent", "high"}

\* C14: on the rule-based path WorkflowAgent.calculate_priority returns
\* URGENT for every suitability item of type loa_required and for every
\* item in the pack_signoff substage, overdue or not.
C14_RuleUrgentItems ==
    (/\ probe_fn = "WorkflowAgent.calculate_priority"
     /\ (~llm_configured \/ probe_llm = "raise")
     /\ \/ (probe_item.workflow_stage = "suitability" /\ probe_item.kind = "loa_required")
        \/ probe_item.workflow_substage = "pack_signoff")
        => probe_out = "urgent"

\* the number of factors that added something to the row's risk score
ContributingFactors(l) ==
    Cardinality({k \in 1..5 : RiskFactors(l)[k].add > 0})

\* C15: predict_bottlenecks reports an analysed LOA exactly when its risk
\* score is above 0.5, with one risk-factor string per contributing factor;
\* the LOA with reliability 0.5, 6 days overdue, chase_count 4, stuck_score
\* 0.5, last chased 16 days ago is reported with five strings.
C15_BottleneckFactors ==
    (probe_fn = "predict_bottlenecks" /\ probe_item.status \in BottleneckStatuses) =>
        /\ probe_out.reported <=> risk_score(probe_item) > 500
        /\ probe_out.reported =>
               Len(probe_out.risk_factors) = ContributingFactors(probe_item)
        /\ (/\ probe_item.provider_reliability = 500
            /\ probe_item.expected_response_date = <<-6>>
            /\ probe_item.chase_count = 4
            /\ probe_item.stuck_score = 500
            /\ probe_item.last_chased_at = <<-16>>) =>
               (probe_out.reported /\ Len(probe_out.risk_factors) = 5)

\* C16: with the no-op stand-in predict_bottlenecks and
\* get_provider_performance return an empty collection,
\* calculate_case_velocity returns absent and run_autonomous_cycle a
\* summary with zero items and zero actions; none raises.
C16_NoOpStandIn ==
    probe_fn = "mock" =>
        /\ probe_out.outcome # "raised"
        /\ probe_item.op \in {"predict_bottlenecks", "get_provider_performance"}
              => probe_out.outcome = "empty"
        /\ probe_item.op = "calculate_case_velocity" => probe_out.outcome = "absent"
        /\ probe_item.op = "run_autonomous_cycle" =>
              /\ probe_out.outcome = "summary"
              /\ probe_out.total_items_identified = 0
              /\ probe_out.actions_taken = << >>

\* the cycle over the stand-in, with rule-based agents, returned its summary
C16_Witness ==
    /\ probe_fn = "mock"
    /\ probe_item.op = "run_autonomous_cycle"
    /\ ~llm_configured
    /\ probe_out.outcome = "summary"

EngineItems == EngineLOAs \o EngineDocuments \o EnginePostAdvice

\* C21: find_stuck_items(T) returns, without raising, exactly the LOAs,
\* document requests and post-advice items of the built-in datasets whose
\* days stuck is at least T, sorted by descending days_stuck and then
\* descending client_value_score.
C21_FindStuckItemsReturns ==
    probe_fn = "find_stuck_items" =>
        /\ probe_out.outcome = "returned"
        /\ \A k \in 1..Len(EngineItems) :
              LET e == EngineItems[k]
                  days == IF e.category = "loa" THEN e.sent_to_provider_at ELSE e.days_waiting
              IN  (days # << >> /\ days[1] >= probe_item.threshold)
                  <=> \E n \in 1..Len(probe_out.items) : probe_out.items[n].item = e
        /\ \A n \in 1..(Len(probe_out.items) - 1) :
              ~TupleLess(<<0 - probe_out.items[n + 1].days_stuck,
                           0 - probe_out.items[n + 1].item.client_value_score>>,
                         <<0 - probe_out.items[n].days_stuck,
                           0 - probe_out.items[n].item.client_value_score>>)

\* C22: identify_case_blocking_items gets through the LOAs and
\* the document requests and fails with a lookup error only where it starts
\* on the post-advice items; it never returns.
C22_FailsOnlyAtPostAdvice ==
    probe_fn = "identify_case_blocking_items" =>
        /\ probe_out.outcome = "raised"
        /\ probe_out.at = "post_advice"

\* C24: when the model call fails, analyze_priority makes no second attempt
\* and does not raise; it returns urgent if days_overdue > 10 or
\* chase_count > 3, otherwise high if days_overdue > 5 or chase_count > 1,
\* otherwise medium if days_overdue > 0, otherwise low, with urgency_score
\* min(days_overdue*0.1 + chase_count*0.15, 1.0).
C24_FallbackOnFailure ==
    (probe_fn = "analyze_priority" /\ probe_llm = "failed") =>
        LET o == probe_item.days_overdue
            c == probe_item.chase_count
        IN  /\ probe_out.invocations = 1
            /\ ~probe_out.raised
            /\ (o > 10 \/ c > 3) => probe_out.priority = "urgent"
            /\ (~(o > 10 \/ c > 3) /\ (o > 5 \/ c > 1)) => probe_out.priority = "high"
            /\ (~(o > 5 \/ c > 1) /\ ~(o > 10 \/ c > 3) /\ o > 0)
                  => probe_out.priority = "medium"
            /\ (o = 0 /\ c <= 1) => probe_out.priority = "low"
            /\ probe_out.urgency_score = IF o * 100 + c * 150 < 1000
                                         THEN o * 100 + c * 150 ELSE 1000

\* a failed call on an item that is not overdue and was chased twice: high,
\* with urgency 0.3
C24_Witness ==
    /\ probe_fn = "analyze_priority"
    /\ probe_llm = "failed"
    /\ probe_item.days_overdue = 0
    /\ probe_item.chase_count = 2
    /\ probe_out.priority = "high"
    /\ probe_out.urgency_score = 300

\* C25: ClientDocAgent.calculate_priority returns urgent when
\* days_since_request > 21 and high when it is 15 to 21; otherwise it follows
\* the urgency score (the base score, plus 0.2 for an identity document):
\* high above 0.6, medium above 0.3, low at or below 0.3.
C25_DocPriorityByAgeThenScore ==
    probe_fn = "Doc_calculate_priority" =>
        LET d == probe_item.days_since_request
            score == calculate_urgency_score(probe_item)
                        + (IF probe_item.kind \in CriticalDocs THEN 200 ELSE 0)
        IN  /\ d > 21 => probe_out = "urgent"
            /\ (d >= 15 /\ d <= 21) => probe_out = "high"
            /\ (d < 15 /\ score > 600) => probe_out = "high"
            /\ (d < 15 /\ score > 300 /\ score <= 600) => probe_out = "medium"
            /\ (d < 15 /\ score <= 300) => probe_out = "low"

\* a request of exactly 21 days is still high although its score is the lowest
C25_Witness ==
    /\ probe_fn = "Doc_calculate_priority"
    /\ probe_item.days_since_request = 21
    /\ probe_item.priority = "low"
    /\ probe_item.kind = "p60"
    /\ probe_out = "high"

\* C30: against the no-op stand-in (query, filter, filter_by, join, all,
\* first and count only) check_and_advance_workflow and get_workflow_status
\* complete without raising for a case in any of the four stages.
C30_WorkflowOnStandIn ==
    probe_fn = "workflow_on_mock" => probe_out.outcome = "returned"

\* Why a never-chased request stays unchased however long the days go on:
\* a cycle never queues a DocumentRequest or PostAdviceItem that had no
\* last_chased_at when the cycle started, whatever its age, and only a
\* chase sets last_chased_at.
NeverChasedNeverQueued ==
    \A p \in Procs : \A k \in 1..Len(all_chases[p]) :
        LET item == all_chases[p][k].item
        IN item.agent \in {"client_document", "post_advice"}
              => RowsOf(cycle_start[p], item.agent)[item.id].last_chased_at # << >>

IdentifiedItems ==
    LET l == SeqOf(LOAIdentified, Len(loas))
        d == SeqOf(DocIdentified, Len(doc_requests))
        a == SeqOf(PAIdentified, Len(post_advice_items))
        w == SeqOf(WFIdentified, Len(wf_items))
    IN [k \in 1..Len(l) |-> LOAItem(l[k])] \o [k \in 1..Len(d) |-> DocItem(d[k])]
          \o [k \in 1..Len(a) |-> PAItem(a[k])] \o [k \in 1..Len(w) |-> WFItem(w[k])]

graph_identify_items ==
    /\ graph.node = "identify_items"
    /\ graph' = [graph EXCEPT !.items_to_analyze = IdentifiedItems,
                              !.node = "analyze_items"]
    /\ UNCHANGED <<wfvars, storevars, cyclevars, probevars, insightsvars>>

\* what the three LLMService analyses (analyze_priority, analyze_stuck_score,
\* should_chase_now) answer for one item: the model's priority with its
\* urgency score, its stuck score and its decision, or, when the model
\* cannot be reached, each method's own fallback
PriorityAnalyses ==
    {[priority |-> "medium", urgency_score |-> 500],
     [priority |-> "urgent", urgency_score |-> 900]}

StuckAnalyses == {0, 700}

LLMAnalyses ==
    [failed : {FALSE}, priority : PriorityAnalyses, stuck : StuckAnalyses, chase : BOOLEAN]
      \cup [failed : {TRUE}, priority : {[priority |-> "medium", urgency_score |-> 500]},
            stuck : {0}, chase : {FALSE}]

\* one analysed item: the item and the llm_* keys _analyze_items adds
Analyzed(item, an) ==
    [item |-> item,
     llm_priority |-> IF an.failed
                      THEN fallback_priority(item.days_overdue, item.chase_count)
                      ELSE an.priority.priority,
     llm_urgency_score |-> IF an.failed
                           THEN Min(item.days_overdue * 100 + item.chase_count * 150, 1000)
                           ELSE an.priority.urgency_score,
     llm_stuck_score |-> IF an.failed THEN Min(item.chase_count * 200, 1000)
                         ELSE an.stuck,
     llm_should_chase |-> IF an.failed THEN item.days_since_last_chase >= 7
                          ELSE an.chase]

graph_analyze_items ==
    /\ graph.node = "analyze_items"
    /\ \E an \in [1..Len(graph.items_to_analyze) -> LLMAnalyses] :
          graph' = [graph EXCEPT
                       !.analyzed_items = [k \in 1..Len(graph.items_to_analyze) |->
                                              Analyzed(graph.items_to_analyze[k], an[k])],
                       !.node = "prioritize_items"]
    /\ UNCHANGED <<wfvars, storevars, cyclevars, probevars, insightsvars>>

ShouldChaseFilter_All(x) == TRUE

\* the filter of _prioritize_items
ShouldChaseFilter(x) == x.llm_should_chase

\* the sort key (-llm_urgency_score, -llm_stuck_score, chase_count), compared
GraphKeyLess(a, b) ==
    \/ a.llm_urgency_score > b.llm_urgency_score
    \/ /\ a.llm_urgency_score = b.llm_urgency_score
       /\ \/ a.llm_stuck_score > b.llm_stuck_score
          \/ /\ a.llm_stuck_score = b.llm_stuck_score
             /\ a.item.chase_count < b.item.chase_count

RECURSIVE GraphInsertSorted(_, _)
GraphInsertSorted(x, s) ==
    IF s = << >> THEN <<x>>
    ELSE IF GraphKeyLess(x, Head(s)) THEN <<x>> \o s
    ELSE <<Head(s)>> \o GraphInsertSorted(x, Tail(s))

\* sorted(items, key=...): stable
RECURSIVE GraphSort(_)
GraphSort(s) ==
    IF s = << >> THEN << >>
    ELSE GraphInsertSorted(s[Len(s)], GraphSort(SubSeq(s, 1, Len(s) - 1)))

graph_prioritize_items ==
    /\ graph.node = "prioritize_items"
    /\ graph' = [graph EXCEPT
                    !.prioritized_items =
                        GraphSort(SelectSeq(graph.analyzed_items, ShouldChaseFilter)),
                    !.node = "generate_communications"]
    /\ UNCHANGED <<wfvars, storevars, cyclevars, probevars, insightsvars>>

\* the channel _generate_communications takes from the service's answer
GraphChannel(item, answer) ==
    LET name == IF answer = "failed" THEN item.client_preferred_contact ELSE answer
    IN IF name = "sms" THEN "sms" ELSE IF name = "phone" THEN "phone" ELSE "email"

graph_generate_communications ==
    /\ graph.node = "generate_communications"
    /\ \E ch \in [1..Len(graph.prioritized_items) -> CycleChannelAnswers] :
          graph' = [graph EXCEPT
                       !.communications_generated =
                           [k \in 1..Len(graph.prioritized_items) |->
                               [item |-> graph.prioritized_items[k],
                                channel |-> GraphChannel(graph.prioritized_items[k].item, ch[k]),
                                llm_generated |-> TRUE]],
                       !.node = "execute_actions"]
    /\ UNCHANGED <<wfvars, storevars, cyclevars, probevars, insightsvars>>

\* the Communication row _execute_actions builds
graph_communication(item, channel) ==
    [client_id |-> item.client_id, chase_type |-> item.agent, chase_id |-> item.id,
     channel |-> channel, direction |-> "outbound", sent_at |-> now]

graph_update_chase_metadata_NoStatus(item) ==
    /\ loas' = IF item.agent = "loa" /\ item.id \in 1..Len(loas)
               THEN [loas EXCEPT ![item.id].chase_count = @ + 1,
                                 ![item.id].last_chased_at = <<now>>]
               ELSE loas
    /\ doc_requests' =
           IF item.agent = "client_document" /\ item.id \in 1..Len(doc_requests)
           THEN [doc_requests EXCEPT ![item.id].chase_count = @ + 1,
                                     ![item.id].last_chased_at = <<now>>]
           ELSE doc_requests
    /\ post_advice_items' =
           IF item.agent = "post_advice" /\ item.id \in 1..Len(post_advice_items)
           THEN [post_advice_items EXCEPT ![item.id].chase_count = @ + 1,
                                          ![item.id].last_chased_at = <<now>>]
           ELSE post_advice_items
    /\ UNCHANGED wf_items

\* LangGraphOrchestrator._update_chase_metadata: queries LOA, DocumentRequest
\* or PostAdviceItem by id; no branch for workflow_item
graph_update_chase_metadata(item) ==
    /\ loas' = IF item.agent = "loa" /\ item.id \in 1..Len(loas)
               THEN [loas EXCEPT ![item.id].chase_count = @ + 1,
                                 ![item.id].last_chased_at = <<now>>,
                                 ![item.id].status = IF @ = "pending" THEN "sent" ELSE @]
               ELSE loas
    /\ doc_requests' =
           IF item.agent = "client_document" /\ item.id \in 1..Len(doc_requests)
           THEN [doc_requests EXCEPT ![item.id].chase_count = @ + 1,
                                     ![item.id].last_chased_at = <<now>>]
           ELSE doc_requests
    /\ post_advice_items' =
           IF item.agent = "post_advice" /\ item.id \in 1..Len(post_advice_items)
           THEN [post_advice_items EXCEPT ![item.id].chase_count = @ + 1,
                                          ![item.id].last_chased_at = <<now>>]
           ELSE post_advice_items
    /\ UNCHANGED wf_items

\* _execute_actions, one communication record of the loop (the chase
\* metadata update commits after each), or the end of the loop
graph_execute_actions ==
    /\ graph.node = "execute_actions"
    /\ IF graph.executed < Len(graph.communications_generated)
       THEN LET rec == graph.communications_generated[graph.executed + 1]
                item == rec.item.item
            IN /\ communications' =
                      Append(communications, graph_communication(item, rec.channel))
               /\ graph_update_chase_metadata(item)
               /\ graph' = [graph EXCEPT
                     !.executed = @ + 1,
                     !.actions_taken = Append(@,
                         [type |-> item.agent, item_id |-> item.id,
                          channel |-> rec.channel, priority |-> rec.item.llm_priority,
                          stuck_score |-> Round2(rec.item.llm_stuck_score)])]
       ELSE /\ graph' = [graph EXCEPT !.node = "create_summary"]
            /\ UNCHANGED <<loas, doc_requests, post_advice_items, wf_items, communications>>
    /\ UNCHANGED <<case_stage, case_substage, meetings, client_found, wf_last, wf_ret,
                   now, llm_configured, cyclevars, probevars, insightsvars>>

graph_create_summary ==
    /\ graph.node = "create_summary"
    /\ graph' = [graph EXCEPT
                    !.cycle_summary =
                        <<[total_items_identified |-> Len(graph.items_to_analyze),
                           items_analyzed |-> Len(graph.analyzed_items),
                           items_prioritized |-> Len(graph.prioritized_items),
                           communications_generated |-> Len(graph.communications_generated),
                           actions_taken |-> graph.actions_taken]>>,
                    !.node = "END"]
    /\ UNCHANGED <<wfvars, storevars, cyclevars, probevars, insightsvars>>

\* a day passes before the cycle is run
GraphTick ==
    /\ graph.node = "identify_items"
    /\ Tick

\* the store of Init, with the LLM service LangGraphOrchestrator always builds
GraphInit ==
    /\ Init
    /\ llm_configured

GraphNext ==
    \/ graph_identify_items
    \/ graph_analyze_items
    \/ graph_prioritize_items
    \/ graph_generate_communications
    \/ graph_execute_actions
    \/ graph_create_summary
    \/ GraphTick

SpecGraph == GraphInit /\ [][GraphNext]_vars

\* ======================================================================
\* Properties of the graph orchestrator
\* ======================================================================

PrioritizeHasRun ==
    graph.node \in {"generate_communications", "execute_actions", "create_summary", "END"}

\* a before b in the order (-llm_urgency_score, -llm_stuck_score, chase_count)
InGraphOrder(a, b) ==
    \/ a.llm_urgency_score > b.llm_urgency_score
    \/ /\ a.llm_urgency_score = b.llm_urgency_score
       /\ a.llm_stuck_score > b.llm_stuck_score
    \/ /\ a.llm_urgency_score = b.llm_urgency_score
       /\ a.llm_stuck_score = b.llm_stuck_score
       /\ a.item.chase_count <= b.item.chase_count

\* C17: after the prioritize stage the prioritized list holds exactly the
\* analysed items with llm_should_chase true, by descending urgency score,
\* then descending stuck score, then ascending chase_count; an item with
\* llm_should_chase false gets no communication and no action in the cycle.
C17_PrioritizedItems ==
    PrioritizeHasRun =>
        LET A == graph.analyzed_items
            P == graph.prioritized_items
        IN /\ Len(P) = Cardinality({k \in 1..Len(A) : A[k].llm_should_chase})
           /\ \A k \in 1..Len(A) :
                 A[k].llm_should_chase <=> \E i \in 1..Len(P) : P[i] = A[k]
           /\ \A i \in 1..Len(P) : \A j \in 1..Len(P) :
                 i < j => InGraphOrder(P[i], P[j])
           /\ \A k \in 1..Len(A) :
                 ~A[k].llm_should_chase =>
                    /\ \A c \in 1..Len(graph.communications_generated) :
                          graph.communications_generated[c].item.item # A[k].item
                    /\ \A c \in 1..Len(graph.actions_taken) :
                          ~(graph.actions_taken[c].type = A[k].item.agent
                            /\ graph.actions_taken[c].item_id = A[k].item.id)
                    /\ \A c \in 1..Len(communications) :
                          ~(communications[c].chase_type = A[k].item.agent
                            /\ communications[c].chase_id = A[k].item.id)

\* a finished cycle that dropped an analysed item, moved a later item to the
\* front, and ordered two items of equal scores by chase_count
C17_Witness ==
    /\ graph.node = "END"
    /\ Len(graph.actions_taken) >= 2
    /\ \E k \in 1..Len(graph.analyzed_items) : ~graph.analyzed_items[k].llm_should_chase
    /\ graph.prioritized_items[1] # graph.analyzed_items[1]
    /\ graph.analyzed_items[1].llm_should_chase
    /\ \E i \in 1..Len(graph.prioritized_items) : \E j \in 1..Len(graph.prioritized_items) :
          /\ i < j
          /\ graph.prioritized_items[i].llm_urgency_score
                = graph.prioritized_items[j].llm_urgency_score
          /\ graph.prioritized_items[i].llm_stuck_score
                = graph.prioritized_items[j].llm_stuck_score
          /\ graph.prioritized_items[i].item.chase_count
                < graph.prioritized_items[j].item.chase_count
          /\ graph.prioritized_items[i].item.agent = "workflow_item"

\* C18: one iteration of the graph orchestrator's execute-actions stage
\* changes the store as the sequential orchestrator's execution step does
\* for the same item: one more outbound Communication for the item as
\* _create_communication builds it, and the rows as the sequential
\* _update_chase_metadata leaves them.
C18_SameEffectAsSequential ==
    [][ (graph.node = "execute_actions" /\ graph'.executed = graph.executed + 1) =>
           LET item == graph.communications_generated[graph.executed + 1].item.item
           IN /\ \E ch \in {"email", "sms", "phone"} :
                    communications' = Append(communications, create_communication(item, ch))
              /\ update_chase_metadata(item) ]_vars

\* a finished cycle that chased an item of every chase type, among them an
\* LOA that was pending
C18_Witness ==
    /\ graph.node = "END"
    /\ {graph.actions_taken[c].type : c \in 1..Len(graph.actions_taken)} = ChaseTypes
    /\ loas[1].status = "sent"
    /\ loas[1].sent_to_client_at = << >>
    /\ loas[1].last_chased_at = <<now>>

\* ---------------------------------------------------------------------
\* InsightsAgent.process_query and the Insights Engine's
\* process_natural_language_query (agents/insights_agent.py,
\* agents/insights_engine.py), as a call stack: the last frame is the
\* call that is running.
\* ---------------------------------------------------------------------

\* the deepest call stack modelled; a call made at this depth raises the
\* interpreter's RecursionError, as a call at the recursion limit does
MaxDepth == 5

\* a frame of process_query or of process_natural_language_query
\*   at          where the call stands
\*   tools_used  did an AIMessage of this call's conversation carry tool calls
\*   answer      final_answer: "none", "content" or "error_content"
Frame(fn, at) ==
    [fn |-> fn, at |-> at, tools_used |-> FALSE, answer |-> "none"]

InsightsTop == insights.stack[Len(insights.stack)]

InsightsRunning(fn, at) ==
    /\ insights.stack # << >>
    /\ InsightsTop.fn = fn
    /\ InsightsTop.at = at

\* the running call goes on as frame f
InsightsGoOn(f) ==
    [insights EXCEPT !.stack = [insights.stack EXCEPT ![Len(insights.stack)] = f],
                     !.ret = "none"]

\* the running call, now frame f, calls fn
InsightsCall(f, fn) ==
    [insights EXCEPT !.stack = Append([insights.stack EXCEPT ![Len(insights.stack)] = f],
                                      Frame(fn, "entry")),
                     !.ret = "none"]

\* the running call returns v to its caller (v = "exception": it raises);
\* the outermost call's v is the outcome of the request
InsightsReturn(v) ==
    [insights EXCEPT !.stack = SubSeq(insights.stack, 1, Len(insights.stack) - 1),
                     !.ret = IF Len(insights.stack) = 1 THEN "none" ELSE v,
                     !.result = IF Len(insights.stack) = 1 THEN v ELSE insights.result]

\* can the running call still make a call
CanCall == Len(insights.stack) < MaxDepth

\* what the model answers in agent_node: an AIMessage with tool calls, one
\* with plain content, one whose content reads like an error, one with
\* neither content nor tool calls; or the invocation raises
ModelReplies == {"tool_calls", "content", "error_content", "empty", "raises"}

\* the except branch of agent_node: AIMessage(content="Error: ...")
AgentReply(reply) == IF reply = "raises" THEN "error_content" ELSE reply

\* should_continue: "tools" when the last message has tool calls, else END
should_continue(reply) == IF reply = "tool_calls" THEN "tools" ELSE "END"

\* agent_node, followed by the conditional edge of the graph
agent_node ==
    /\ InsightsRunning("process_query", "agent")
    /\ \E answer \in ModelReplies :
         LET reply == AgentReply(answer)
             f == InsightsTop
         IN  insights' = InsightsGoOn(
                 [f EXCEPT !.at = should_continue(reply),
                           !.tools_used = f.tools_used \/ reply = "tool_calls",
                           !.answer = IF reply \in {"content", "error_content"}
                                      THEN reply ELSE f.answer])
    /\ UNCHANGED <<wfvars, storevars, cyclevars, probevars, graphvars>>

\* the ToolNode and the edge tools -> agent, which is unconditional and
\* counts nothing; a round that raises ends workflow.invoke with that
\* exception
tool_node ==
    /\ InsightsRunning("process_query", "tools")
    /\ \E raises \in BOOLEAN :
         LET f == InsightsTop
         IN  insights' = InsightsGoOn(
                 IF raises
                 THEN [f EXCEPT !.at = "except"]
                 ELSE [f EXCEPT !.at = "agent"])
    /\ UNCHANGED <<wfvars, storevars, cyclevars, probevars, graphvars>>

\* process_query up to workflow.invoke: without the graph capability the
\* engine is called at once, outside any try
process_query_entry ==
    /\ InsightsRunning("process_query", "entry")
    /\ LET f == InsightsTop
       IN  insights' =
             IF ~insights.available
             THEN IF CanCall
                  THEN InsightsCall([f EXCEPT !.at = "wait_unavailable"],
                                    "process_natural_language_query")
                  ELSE InsightsReturn("exception")
             ELSE InsightsGoOn([f EXCEPT !.at = "agent"])
    /\ UNCHANGED <<wfvars, storevars, cyclevars, probevars, graphvars>>

\* what self.llm.invoke(summary_prompt / guidance_prompt) gives
SummaryAnswers == {"content", "error_content", "raises"}

\* process_query after workflow.invoke returned: the summary or guidance
\* prompt when there is no final answer, the error check, the payload
process_query_extract ==
    /\ InsightsRunning("process_query", "END")
    /\ \E summary \in SummaryAnswers :
         LET f == InsightsTop
             final_answer == IF f.answer = "none" THEN summary ELSE f.answer
         IN  insights' =
               IF final_answer = "raises"
               THEN InsightsGoOn([f EXCEPT !.at = "except"])
               ELSE IF final_answer = "error_content"
               THEN IF CanCall
                    THEN InsightsCall([f EXCEPT !.at = "wait_error_answer",
                                                !.answer = final_answer],
                                      "process_natural_language_query")
                    ELSE InsightsGoOn([f EXCEPT !.at = "except"])
               ELSE InsightsReturn(IF f.tools_used THEN "agentic" ELSE "agentic_empty")
    /\ UNCHANGED <<wfvars, storevars, cyclevars, probevars, graphvars>>

\* the except branch of process_query: the engine once more, and the
\* generic error payload when that raises too
process_query_except ==
    /\ InsightsRunning("process_query", "except")
    /\ insights' =
         IF CanCall
         THEN InsightsCall([InsightsTop EXCEPT !.at = "wait_except"],
                           "process_natural_language_query")
         ELSE InsightsReturn("error")
    /\ UNCHANGED <<wfvars, storevars, cyclevars, probevars, graphvars>>

\* process_query when the engine's call comes back
process_query_resume ==
    /\ insights.stack # << >>
    /\ InsightsTop.fn = "process_query"
    /\ InsightsTop.at \in {"wait_unavailable", "wait_error_answer", "wait_except"}
    /\ insights.ret # "none"
    /\ LET f == InsightsTop
           v == insights.ret
       IN  insights' =
             CASE f.at = "wait_unavailable" -> InsightsReturn(v)
               [] f.at = "wait_error_answer" ->
                    IF v = "exception"
                    THEN InsightsGoOn([f EXCEPT !.at = "except"])
                    ELSE InsightsReturn(v)
               [] f.at = "wait_except" ->
                    InsightsReturn(IF v = "exception" THEN "error" ELSE v)
    /\ UNCHANGED <<wfvars, storevars, cyclevars, probevars, graphvars>>

\* what _process_query_fallback gives: a payload with results, one with
\* count 0, or it raises
FallbackOutcomes == {"fallback", "fallback_empty", "exception"}

\* result.get('count', 0) == 0 and not result.get('tools_used')
NoResults(v) == v \in {"agentic_empty", "error", "fallback_empty"}

\* process_natural_language_query up to agent.process_query(query): a new
\* InsightsAgent is built and asked; a call that cannot be made raises
\* into except Exception, which runs _process_query_fallback
process_natural_language_query ==
    /\ InsightsRunning("process_natural_language_query", "entry")
    /\ \E outcome \in FallbackOutcomes :
         insights' =
           IF CanCall
           THEN InsightsCall([InsightsTop EXCEPT !.at = "wait_agent"], "process_query")
           ELSE InsightsReturn(outcome)
    /\ UNCHANGED <<wfvars, storevars, cyclevars, probevars, graphvars>>

\* process_natural_language_query when agent.process_query comes back:
\* _process_query_fallback when it raised or found nothing (and once more
\* from except Exception when the fallback inside the try raises)
process_natural_language_query_resume ==
    /\ InsightsRunning("process_natural_language_query", "wait_agent")
    /\ insights.ret # "none"
    /\ \E first \in FallbackOutcomes, second \in FallbackOutcomes :
         LET v == insights.ret
         IN  insights' =
               IF v = "exception"
               THEN InsightsReturn(first)
               ELSE IF NoResults(v)
               THEN InsightsReturn(IF first = "exception" THEN second ELSE first)
               ELSE InsightsReturn(v)
    /\ UNCHANGED <<wfvars, storevars, cyclevars, probevars, graphvars>>

\* POST /api/insights/natural-language (main.py): one call of
\* InsightsAgent.process_query; available is LANGGRAPH_AVAILABLE
InsightsInit ==
    /\ insights \in {[available |-> a, stack |-> <<Frame("process_query", "entry")>>,
                      ret |-> "none", result |-> "none"] : a \in BOOLEAN}
    /\ probe_fn = "none"
    /\ probe_item = "none"
    /\ probe_out = "none"
    /\ probe_llm = "none"
    /\ graph = NoGraph
    /\ case_stage = None
    /\ case_substage = None
    /\ wf_items = << >>
    /\ meetings = {}
    /\ client_found = TRUE
    /\ wf_last = "init"
    /\ wf_ret = NoRet
    /\ now = 0
    /\ loas = << >>
    /\ doc_requests = << >>
    /\ post_advice_items = << >>
    /\ communications = << >>
    /\ llm_configured = TRUE
    /\ pc = [p \in Procs |-> "idle"]
    /\ all_chases = [p \in Procs |-> << >>]
    /\ next_chase = [p \in Procs |-> 1]
    /\ actions_taken = [p \in Procs |-> << >>]
    /\ cycle_start = [p \in Procs |-> NoStart]
    /\ row_read = [p \in Procs |-> << >>]
    /\ cycles_run = 0

InsightsNext ==
    \/ process_query_entry
    \/ agent_node
    \/ tool_node
    \/ process_query_extract
    \/ process_query_except
    \/ process_query_resume
    \/ process_natural_language_query
    \/ process_natural_language_query_resume

SpecInsights == InsightsInit /\ [][InsightsNext]_vars

\* ---- claims about the Insights Agent ----

ProcessQueryFrames ==
    {i \in DOMAIN insights.stack : insights.stack[i].fn = "process_query"}

\* C19: InsightsAgent.process_query returns a payload and never lets an
\* exception out, and the Insights Engine fallback it hands over to does
\* not call InsightsAgent.process_query again: at no time is more than one
\* process_query call on the stack.
C19_FallbackDoesNotReenter ==
    /\ Cardinality(ProcessQueryFrames) <= 1
    /\ insights.result # "exception"

====
